---- MODULE Spec2Model ----
(***************************************************************************)
(* A model of the layered configuration store of config-rust               *)
(* (src/src/config.rs, src/src/value.rs).                                  *)
(*                                                                         *)
(* The store (Config) holds three layers -- defaults, sources, overrides   *)
(* -- and a derived cache that every mutator rebuilds through refresh().   *)
(* The path-expression engine (module `path`) and the Source trait (module *)
(* `source`) and the error type (module `error`) are used by config.rs and *)
(* value.rs but their files are not among the repository files at hand;    *)
(* they follow the specification text (4.1, 4.3, 5, 6).  The conversion    *)
(* that freezes a store follows 4.3 as well.                               *)
(*                                                                         *)
(* Modelling decisions                                                     *)
(*  - A key text is a sequence of one-character strings, so that           *)
(*    to_lowercase and the parser work on characters.                      *)
(*  - A HashMap<Expression, Value> layer is a sequence of <<expr, value>>  *)
(*    pairs with distinct expressions: the sequence is the map's           *)
(*    iteration order.  Inserting a new key may leave the entries in any   *)
(*    order (the order depends on the hash seed and on resizing);          *)
(*    replacing the value of a present key and iterating do not change it. *)
(*  - A source is an immutable object: it either contributes the same      *)
(*    list of (expression, value) pairs on every collect or fails on every *)
(*    collect.                                                             *)
(*  - ConfigKind::Frozen carries no layers: a frozen store has none.       *)
(*  - A text (a String's content, a table key, a rendered value) is a      *)
(*    sequence of one-character strings as well, so that lower-casing,     *)
(*    number parsing, formatting and ordering work on characters.          *)
(*                                                                         *)
(* Six specifications share the variables:                                 *)
(*    Spec         a new store and the calls made on it;                   *)
(*    TreeSpec     a store built from a nested mapping (Config::from),     *)
(*                 read with get and the typed reads and refreshed;        *)
(*    ValueSpec    a value and the conversions of impl Value applied to    *)
(*                 it;                                                     *)
(*    LayeredSpec  a new store whose layers compete for `a` and what is    *)
(*                 below it, with two failing sources and every read;      *)
(*    ChainSpec    a new store written through chains of ConfigResult;     *)
(*    FamilySpec   a new store and the store get_tree returned from it.    *)
(***************************************************************************)
EXTENDS Integers, Sequences, FiniteSets, TLC

VARIABLES
    kind,       \* Config.kind: "Mutable" or "Frozen"            (config.rs:14-25)
    defaults,   \* ConfigKind::Mutable.defaults, in iteration order
    overrides,  \* ConfigKind::Mutable.overrides, in iteration order
    sources,    \* ConfigKind::Mutable.sources (Vec, insertion order)
    cache,      \* Config.cache                                   (config.rs:45)
    call,       \* the most recent call and what it returned
    subconfig,  \* the store last returned by get_tree, if any (config.rs:237-239)
    refreshes,  \* how many refresh calls were just made in a row (counted to 2)
    ops         \* number of layer-changing calls made so far (bounds the model)

vars == <<kind, defaults, overrides, sources, cache, call, subconfig, refreshes,
          ops>>

\* Number of merge, set, set_default and freeze calls explored.
MaxOps == 3

-----------------------------------------------------------------------------
(***************************************************************************)
(* Value (value.rs:11-19, 100-122).  origin is left out: it is used for    *)
(* error messages only.  Each variant has its own payload field.  A String *)
(* holds a text (a sequence of one-character strings); a Float holds a     *)
(* number of tenths (Float(25) is 2.5), which is enough to tell rounding   *)
(* from truncation and zero from non-zero.                                 *)
(***************************************************************************)
Nil == [kind |-> "Nil"]
Boolean(x) == [kind |-> "Boolean", b |-> x]
Integer(x) == [kind |-> "Integer", i |-> x]
Float(x) == [kind |-> "Float", f |-> x]
String(x) == [kind |-> "String", s |-> x]
Table(x) == [kind |-> "Table", t |-> x]
Array(x) == [kind |-> "Array", a |-> x]

\* HashMap::<String, Value>::new()
EmptyMap == [x \in {} |-> Nil]

\* HashMap::insert on a table's map
MapInsert(m, k, v) == [x \in (DOMAIN m) \cup {k} |-> IF x = k THEN v ELSE m[x]]

-----------------------------------------------------------------------------
(***************************************************************************)
(* Key texts and str::to_lowercase (config.rs:169, 189, 206).              *)
(***************************************************************************)
UpperCase ==
    << "A", "B", "C", "D", "E", "F", "G", "H", "I", "J", "K", "L", "M",
       "N", "O", "P", "Q", "R", "S", "T", "U", "V", "W", "X", "Y", "Z" >>

LowerCase ==
    << "a", "b", "c", "d", "e", "f", "g", "h", "i", "j", "k", "l", "m",
       "n", "o", "p", "q", "r", "s", "t", "u", "v", "w", "x", "y", "z" >>

LowerChar(c) ==
    IF \E n \in DOMAIN UpperCase : UpperCase[n] = c
    THEN LowerCase[CHOOSE n \in DOMAIN UpperCase : UpperCase[n] = c]
    ELSE c

to_lowercase(text) == [n \in 1..Len(text) |-> LowerChar(text[n])]

\* Display of an integer (format!("{}", i), i64::to_string): base 10, "-" for
\* a negative number, no leading zeros.
DigitChar(n) == <<"0", "1", "2", "3", "4", "5", "6", "7", "8", "9">>[n + 1]

RECURSIVE NatToString(_)
NatToString(n) ==
    IF n < 10 THEN <<DigitChar(n)>>
    ELSE Append(NatToString(n \div 10), DigitChar(n % 10))

IntToString(n) == IF n < 0 THEN <<"-">> \o NatToString(0 - n) ELSE NatToString(n)

-----------------------------------------------------------------------------
(***************************************************************************)
(* Path expressions: parse (spec 4.1).  An expression is a sequence of     *)
(* steps Key(name) | Index(n).  Grammar:                                   *)
(*    expr    ::= ident postfix*                                           *)
(*    postfix ::= "." ident | "[" digit+ "]"                               *)
(*    ident   ::= one or more characters other than ".", "[" and "]"       *)
(***************************************************************************)
Key(name) == [t |-> "Key", k |-> name]
Index(n) == [t |-> "Index", n |-> n]

Digits == {"0", "1", "2", "3", "4", "5", "6", "7", "8", "9"}

DigitVal(c) ==
    CASE c = "0" -> 0 [] c = "1" -> 1 [] c = "2" -> 2 [] c = "3" -> 3
      [] c = "4" -> 4 [] c = "5" -> 5 [] c = "6" -> 6 [] c = "7" -> 7
      [] c = "8" -> 8 [] c = "9" -> 9

IsIdentChar(c) == c \notin {".", "[", "]"}

\* The first position >= from that does not hold an identifier character.
RECURSIVE IdentEnd(_, _)
IdentEnd(text, from) ==
    IF from <= Len(text) /\ IsIdentChar(text[from])
    THEN IdentEnd(text, from + 1)
    ELSE from

\* The first position >= from that does not hold a digit.
RECURSIVE DigitsEnd(_, _)
DigitsEnd(text, from) ==
    IF from <= Len(text) /\ text[from] \in Digits
    THEN DigitsEnd(text, from + 1)
    ELSE from

\* The base-10 value of the digits text[from .. to].
RECURSIVE DigitsVal(_, _, _)
DigitsVal(text, from, to) ==
    IF from > to THEN 0
    ELSE DigitsVal(text, from, to - 1) * 10 + DigitVal(text[to])

ParseError == [ok |-> FALSE]

RECURSIVE ParsePostfix(_, _, _)
ParsePostfix(text, pos, acc) ==
    IF pos > Len(text) THEN [ok |-> TRUE, expr |-> acc]
    ELSE IF text[pos] = "." THEN
        LET e == IdentEnd(text, pos + 1) IN
        IF e = pos + 1 THEN ParseError
        ELSE ParsePostfix(text, e, Append(acc, Key(SubSeq(text, pos + 1, e - 1))))
    ELSE IF text[pos] = "[" THEN
        LET e == DigitsEnd(text, pos + 1) IN
        IF e = pos + 1 \/ e > Len(text) \/ text[e] # "]" THEN ParseError
        ELSE ParsePostfix(text, e + 1,
                          Append(acc, Index(DigitsVal(text, pos + 1, e - 1))))
    ELSE ParseError

\* str::parse::<path::Expression>()
Parse(text) ==
    LET e == IdentEnd(text, 1) IN
    IF e = 1 THEN ParseError
    ELSE ParsePostfix(text, e, <<Key(SubSeq(text, 1, e - 1))>>)

-----------------------------------------------------------------------------
(***************************************************************************)
(* Path expressions: read and write traversal (spec 4.1).                  *)
(***************************************************************************)
NotThere == [found |-> FALSE]
There(v) == [found |-> TRUE, v |-> v]

\* Expression::get: walk the steps; a miss or a shape mismatch is None.
RECURSIVE PathGet(_, _)
PathGet(node, expr) ==
    IF expr = <<>> THEN There(node)
    ELSE LET s == Head(expr) IN
         IF s.t = "Key" THEN
             IF node.kind = "Table" /\ s.k \in DOMAIN node.t
             THEN PathGet(node.t[s.k], Tail(expr))
             ELSE NotThere
         ELSE
             IF node.kind = "Array" /\ s.n + 1 <= Len(node.a)
             THEN PathGet(node.a[s.n + 1], Tail(expr))
             ELSE NotThere

\* Faulty variant of PadTo: the array is resized to end at index n, so a
\* longer array loses its tail.
PadTo_Truncate(arr, n) ==
    [j \in 1..(n + 1) |-> IF j <= Len(arr) THEN arr[j] ELSE Nil]

\* An array extended with Nil placeholders up to and including index n.
PadTo(arr, n) ==
    [j \in 1..(IF Len(arr) > n + 1 THEN Len(arr) ELSE n + 1) |->
        IF j <= Len(arr) THEN arr[j] ELSE Nil]

\* Expression::set: walk the steps, creating (or clobbering into) the table or
\* array each step needs; the final step assigns the value in place.
RECURSIVE PathSet(_, _, _)
PathSet(node, expr, value) ==
    IF expr = <<>> THEN value
    ELSE LET s == Head(expr) IN
         IF s.t = "Key" THEN
             LET m == IF node.kind = "Table" THEN node.t ELSE EmptyMap
                 child == IF s.k \in DOMAIN m THEN m[s.k] ELSE Table(EmptyMap)
             IN Table(MapInsert(m, s.k, PathSet(child, Tail(expr), value)))
         ELSE
             LET arr == PadTo(IF node.kind = "Array" THEN node.a ELSE <<>>, s.n)
             IN Array([arr EXCEPT ![s.n + 1] = PathSet(arr[s.n + 1], Tail(expr), value)])

-----------------------------------------------------------------------------
(***************************************************************************)
(* Inputs explored by the model.                                           *)
(***************************************************************************)
\* Key texts handed to set and set_default.  The last two do not match the
\* path grammar.
KeyTexts ==
    { <<"a">>, <<"a", ".", "b">>, <<"A", ".", "B">>,
      <<"a", "[", "0", "]", ".", "b">>, <<"a", "[", "2", "]">>, <<"b">>,
      <<"a", ".", ".", "b">>, <<"a", "[", "b", "]">> }

\* Key texts handed to the Get action: one that differs from a written key by
\* case only, an indexed one and a malformed one.
GetKeys == { <<"A", ".", "B">>, <<"a", "[", "2", "]">>, <<"a", ".", ".", "b">> }

\* Values handed to set_default and to set.
DefaultValues == {Integer(1)}
SetValues == {Integer(2), Boolean(TRUE)}

E_ab == <<Key(<<"a">>), Key(<<"b">>)>>

\* Sources handed to merge: what each contributes when asked, or that it fails.
SourcePool ==
    { [id |-> "s1", fails |-> FALSE,
       data |-> << [key |-> E_ab, val |-> String(<<"s", "1">>)] >>],
      [id |-> "s2", fails |-> FALSE,
       data |-> << [key |-> E_ab, val |-> String(<<"s", "2">>)] >>],
      [id |-> "bad", fails |-> TRUE, data |-> <<>>] }

-----------------------------------------------------------------------------
(***************************************************************************)
(* HashMap<path::Expression, Value> layers (config.rs:17-18).              *)
(***************************************************************************)
LayerKeys(layer) == {layer[j].key : j \in DOMAIN layer}

LayerHas(layer, expr) == expr \in LayerKeys(layer)

LayerAt(layer, expr) ==
    LET j == CHOOSE j \in DOMAIN layer : layer[j].key = expr IN layer[j].val

Orderings(seq) ==
    { [j \in DOMAIN seq |-> seq[p[j]]] :
        p \in {q \in [DOMAIN seq -> DOMAIN seq] :
                 \A x, y \in DOMAIN seq : x # y => q[x] # q[y]} }

\* Faulty variant of LayerInsert: the pair is added without looking for an
\* entry with an equal key.
LayerInsert_Append(layer, expr, value) ==
    Orderings(Append(layer, [key |-> expr, val |-> value]))

\* HashMap::insert: the maps it can leave.  A present key keeps its place and
\* takes the new value; a new key may leave the entries in any order.
LayerInsert(layer, expr, value) ==
    IF LayerHas(layer, expr)
    THEN { [j \in DOMAIN layer |->
              IF layer[j].key = expr THEN [key |-> expr, val |-> value]
              ELSE layer[j]] }
    ELSE Orderings(Append(layer, [key |-> expr, val |-> value]))

\* Faulty variant of ApplyLayer: every entry is written into a copy of the
\* incoming tree and only the last copy is kept.
ApplyLayer_LostUpdate(layer, tree) ==
    IF layer = <<>> THEN tree
    ELSE PathSet(tree, layer[Len(layer)].key, layer[Len(layer)].val)

\* Faulty variant of ApplyLayer: an entry that goes below a scalar already in
\* the tree is left out instead of replacing the scalar.
RECURSIVE ApplyLayer_KeepScalar(_, _)
ApplyLayer_KeepScalar(layer, tree) ==
    IF layer = <<>> THEN tree
    ELSE LET e == Head(layer).key
             root == PathGet(tree, SubSeq(e, 1, 1))
             blocked == /\ Len(e) > 1 /\ root.found
                        /\ root.v.kind \notin {"Nil", "Table", "Array"}
         IN ApplyLayer_KeepScalar(Tail(layer),
                IF blocked THEN tree ELSE PathSet(tree, e, Head(layer).val))

\* for (key, val) in layer { key.set(&mut cache, val.clone()); }
RECURSIVE ApplyLayer(_, _)
ApplyLayer(layer, tree) ==
    IF layer = <<>> THEN tree
    ELSE ApplyLayer(Tail(layer), PathSet(tree, Head(layer).key, Head(layer).val))

(***************************************************************************)
(* sources.collect_to(&mut cache) (spec 4.3 step 3): each source in        *)
(* insertion order applies its pairs with set; the first failing source    *)
(* ends the collection with its error.                                     *)
(***************************************************************************)
\* The error a failing source returns: it is the source's own.
SourceError(id) == [kind |-> "SourceError", source |-> id]

RECURSIVE collect_to(_, _)
collect_to(srcs, tree) ==
    IF srcs = <<>> THEN [ok |-> TRUE, cache |-> tree]
    ELSE IF Head(srcs).fails THEN [ok |-> FALSE, error |-> Head(srcs).id, cache |-> tree]
    ELSE collect_to(Tail(srcs), ApplyLayer(Head(srcs).data, tree))

\* Faulty variant of refresh: the layers are applied in the wrong order
\* (overrides first, defaults last).
refresh_OverridesFirst(k, d, s, o, c) ==
    IF k = "Frozen" THEN [res |-> "Frozen", cache |-> c, error |-> Nil]
    ELSE LET collected == collect_to(s, ApplyLayer(o, Table(EmptyMap)))
         IN IF ~collected.ok
            THEN [res |-> "SourceError", cache |-> c, error |-> SourceError(collected.error)]
            ELSE [res |-> "Ok", cache |-> ApplyLayer(d, collected.cache), error |-> Nil]

\* Faulty variant of refresh: self.cache is written while it is being built,
\* so a failing source leaves the partly built tree behind.
refresh_KeepPartial(k, d, s, o, c) ==
    IF k = "Frozen" THEN [res |-> "Frozen", cache |-> c, error |-> Nil]
    ELSE LET collected == collect_to(s, ApplyLayer(d, Table(EmptyMap)))
         IN IF ~collected.ok
            THEN [res |-> "SourceError", cache |-> collected.cache,
                  error |-> SourceError(collected.error)]
            ELSE [res |-> "Ok", cache |-> ApplyLayer(o, collected.cache), error |-> Nil]

\* Faulty variant of refresh: a failing collection is passed over and the
\* overrides are applied to what the defaults gave.
refresh_SwallowError(k, d, s, o, c) ==
    IF k = "Frozen" THEN [res |-> "Frozen", cache |-> c, error |-> Nil]
    ELSE LET withDefaults == ApplyLayer(d, Table(EmptyMap))
             collected == collect_to(s, withDefaults)
         IN [res |-> "Ok", error |-> Nil,
             cache |-> ApplyLayer(o, IF collected.ok THEN collected.cache
                                     ELSE withDefaults)]

(***************************************************************************)
(* Config::refresh (config.rs:123-157): the result it returns (with the    *)
(* error, if any) and the cache it leaves, from the store's fields.        *)
(***************************************************************************)
refresh(k, d, s, o, c) ==
    IF k = "Frozen" THEN [res |-> "Frozen", cache |-> c, error |-> Nil]
    ELSE LET withDefaults == ApplyLayer(d, Table(EmptyMap))
             collected == collect_to(s, withDefaults)
         IN IF ~collected.ok
            THEN [res |-> "SourceError", cache |-> c, error |-> SourceError(collected.error)]
            ELSE [res |-> "Ok", cache |-> ApplyLayer(o, collected.cache), error |-> Nil]

\* Faulty variant of get: the key is parsed without being lower-cased.
get_CaseSensitive(c, key) ==
    LET p == Parse(key) IN
    IF ~p.ok THEN [res |-> "ParseError", ret |-> Nil, key |-> <<>>]
    ELSE LET value == PathGet(c, p.expr) IN
         IF value.found THEN [res |-> "Ok", ret |-> value.v, key |-> <<>>]
         ELSE [res |-> "NotFound", ret |-> Nil, key |-> key]

\* Faulty variant of get: NotFound carries the lower-cased key.
get_LoweredKey(c, key) ==
    LET p == Parse(to_lowercase(key)) IN
    IF ~p.ok THEN [res |-> "ParseError", ret |-> Nil, key |-> <<>>]
    ELSE LET value == PathGet(c, p.expr) IN
         IF value.found THEN [res |-> "Ok", ret |-> value.v, key |-> <<>>]
         ELSE [res |-> "NotFound", ret |-> Nil, key |-> to_lowercase(key)]

(***************************************************************************)
(* Config::get (config.rs:204-219) with T = Value.  The result names the   *)
(* outcome (res), the value read (ret) and, for ConfigError::NotFound, the *)
(* key text the error carries (key).                                       *)
(***************************************************************************)
get(c, key) ==
    LET p == Parse(to_lowercase(key)) IN
    IF ~p.ok THEN [res |-> "ParseError", ret |-> Nil, key |-> <<>>]
    ELSE LET value == PathGet(c, p.expr) IN
         IF value.found THEN [res |-> "Ok", ret |-> value.v, key |-> <<>>]
         ELSE [res |-> "NotFound", ret |-> Nil, key |-> key]

-----------------------------------------------------------------------------
(***************************************************************************)
(* impl From<HashMap<String, Value>> for Config (config.rs:48-93).         *)
(***************************************************************************)
\* path::Expression::from_str(text).unwrap(); the text is not lower-cased.
from_str(text) == Parse(text).expr

\* build_path (config.rs:50-81): the sequences of retmap.insert calls it can
\* make, one for each order in which the maps can be iterated.  A table
\* recurses with the path so far; an array inserts each element whole under
\* format!("{}[{}]", k, i), which leaves root out; any other value is
\* inserted under the path so far.
RECURSIVE build_path(_, _)
build_path(root, valmap) ==
    IF DOMAIN valmap = {} THEN {<<>>}
    ELSE UNION {
           LET v == valmap[k]
               root_path == IF root = <<>> THEN <<>> ELSE root \o <<".">>
               visit ==
                   CASE v.kind = "Table" -> build_path(root_path \o k, v.t)
                     [] v.kind = "Array" ->
                          { [ n \in 1..Len(v.a) |->
                                [key |-> from_str(k \o <<"[">> \o IntToString(n - 1) \o <<"]">>),
                                 val |-> v.a[n]] ] }
                     [] OTHER -> { << [key |-> from_str(root_path \o k), val |-> v] >> }
               others == build_path(root, [x \in (DOMAIN valmap) \ {k} |-> valmap[x]])
           IN { first \o rest : first \in visit, rest \in others }
         : k \in DOMAIN valmap }

\* The maps a sequence of HashMap::insert calls can leave.
RECURSIVE InsertAll(_, _)
InsertAll(layer, pairs) ==
    IF pairs = <<>> THEN {layer}
    ELSE UNION { InsertAll(inserted, Tail(pairs)) :
                   inserted \in LayerInsert(layer, Head(pairs).key, Head(pairs).val) }

\* Config::from(map): the stores it can build (they differ in the iteration
\* order of overrides and, when two inserts hit one key, in which one won).
From(map) ==
    { [kind |-> "Mutable", defaults |-> <<>>, overrides |-> retmap, sources |-> <<>>,
       cache |-> Table(map)] :
        retmap \in UNION { InsertAll(<<>>, pairs) : pairs \in build_path(<<>>, map) } }

-----------------------------------------------------------------------------
(***************************************************************************)
(* Coercions (value.rs:139-249).  A result is [res |-> "Ok", ret |-> x] or *)
(* the InvalidType error.  The error type (module `error`) is not among    *)
(* the files at hand; its fields follow the specification text (5): the    *)
(* actual value, the expected shape and the key, which is None until       *)
(* ConfigError::extend_with_key sets it (value.rs:430-471; config.rs does  *)
(* not call it).                                                           *)
(***************************************************************************)
None == [some |-> FALSE]
Some(x) == [some |-> TRUE, v |-> x]

Ok(x) == [res |-> "Ok", ret |-> x]

\* ConfigError::invalid_type(origin, unexpected, expected)
invalid_type(unexpected, expected) ==
    [res |-> "InvalidType", unexpected |-> unexpected, expected |-> expected,
     key |-> None]

TrueWords == { <<"t", "r", "u", "e">>, <<"o", "n">>, <<"y", "e", "s">> }
FalseWords == { <<"f", "a", "l", "s", "e">>, <<"o", "f", "f">>, <<"n", "o">> }

\* Faulty variant of into_bool: the text is matched without being lower-cased.
into_bool_CaseSensitive(value) ==
    CASE value.kind = "Boolean" -> Ok(value.b)
      [] value.kind = "Integer" -> Ok(value.i # 0)
      [] value.kind = "Float" -> Ok(value.f # 0)
      [] value.kind = "String" ->
           IF value.s \in {<<"1">>} \cup TrueWords THEN Ok(TRUE)
           ELSE IF value.s \in {<<"0">>} \cup FalseWords THEN Ok(FALSE)
           ELSE invalid_type(value, "a boolean")
      [] OTHER -> invalid_type(value, "a boolean")

\* Value::into_bool (value.rs:139-164)
into_bool(value) ==
    CASE value.kind = "Boolean" -> Ok(value.b)
      [] value.kind = "Integer" -> Ok(value.i # 0)
      [] value.kind = "Float" -> Ok(value.f # 0)
      [] value.kind = "String" ->
           LET s == to_lowercase(value.s) IN
           IF s \in {<<"1">>} \cup TrueWords THEN Ok(TRUE)
           ELSE IF s \in {<<"0">>} \cup FalseWords THEN Ok(FALSE)
           ELSE invalid_type(value, "a boolean")
      [] OTHER -> invalid_type(value, "a boolean")

\* str::parse::<i64>(): an optional sign, then one or more digits and nothing
\* else.  (The texts explored are far from the ends of i64's range.)
parse_i64(s) ==
    LET signed == Len(s) >= 1 /\ s[1] \in {"+", "-"}
        from == IF signed THEN 2 ELSE 1
    IN IF from > Len(s) \/ DigitsEnd(s, from) # Len(s) + 1 THEN [ok |-> FALSE]
       ELSE LET n == DigitsVal(s, from, Len(s))
            IN [ok |-> TRUE, v |-> IF signed /\ s[1] = "-" THEN 0 - n ELSE n]

\* f64::round() as i64 on a number of tenths: to the nearest integer, a half
\* away from zero.
round(f) == IF f >= 0 THEN (f + 5) \div 10 ELSE 0 - ((5 - f) \div 10)

\* Faulty variant of into_int: a text is only ever parsed as a number.
into_int_NoWords(value) ==
    CASE value.kind = "Integer" -> Ok(value.i)
      [] value.kind = "String" ->
           LET parsed == parse_i64(value.s) IN
           IF parsed.ok THEN Ok(parsed.v) ELSE invalid_type(value, "an integer")
      [] value.kind = "Boolean" -> Ok(IF value.b THEN 1 ELSE 0)
      [] value.kind = "Float" -> Ok(round(value.f))
      [] OTHER -> invalid_type(value, "an integer")

\* Value::into_int (value.rs:166-191)
into_int(value) ==
    CASE value.kind = "Integer" -> Ok(value.i)
      [] value.kind = "String" ->
           LET s == to_lowercase(value.s) IN
           IF s \in TrueWords THEN Ok(1)
           ELSE IF s \in FalseWords THEN Ok(0)
           ELSE LET parsed == parse_i64(value.s) IN
                IF parsed.ok THEN Ok(parsed.v) ELSE invalid_type(value, "an integer")
      [] value.kind = "Boolean" -> Ok(IF value.b THEN 1 ELSE 0)
      [] value.kind = "Float" -> Ok(round(value.f))
      [] OTHER -> invalid_type(value, "an integer")

\* Display of a float (f64::to_string) on a number of tenths: 25 is "2.5",
\* 20 is "2", -5 is "-0.5".
FloatToString(f) ==
    LET m == IF f < 0 THEN 0 - f ELSE f
        whole == (IF f < 0 THEN <<"-">> ELSE <<>>) \o NatToString(m \div 10)
    IN IF m % 10 = 0 THEN whole ELSE whole \o <<".", DigitChar(m % 10)>>

\* bool::to_string
BoolToString(b) == IF b THEN <<"t", "r", "u", "e">> ELSE <<"f", "a", "l", "s", "e">>

\* Faulty variant of into_str: Nil becomes the empty text.
into_str_NilAsEmpty(value) ==
    CASE value.kind = "String" -> Ok(value.s)
      [] value.kind = "Boolean" -> Ok(BoolToString(value.b))
      [] value.kind = "Integer" -> Ok(IntToString(value.i))
      [] value.kind = "Float" -> Ok(FloatToString(value.f))
      [] value.kind = "Nil" -> Ok(<<>>)
      [] OTHER -> invalid_type(value, "a string")

\* Value::into_str (value.rs:220-231)
into_str(value) ==
    CASE value.kind = "String" -> Ok(value.s)
      [] value.kind = "Boolean" -> Ok(BoolToString(value.b))
      [] value.kind = "Integer" -> Ok(IntToString(value.i))
      [] value.kind = "Float" -> Ok(FloatToString(value.f))
      [] OTHER -> invalid_type(value, "a string")

\* Value::into_array (value.rs:233-240)
into_array(value) ==
    CASE value.kind = "Array" -> Ok(value.a)
      [] OTHER -> invalid_type(value, "an array")

\* Value::into_tree (value.rs:242-249): the results it can give (Config::from
\* can leave the overrides in more than one iteration order).
into_tree(value) ==
    CASE value.kind = "Table" -> { Ok(c) : c \in From(value.t) }
      [] OTHER -> { invalid_type(value, "a map") }

-----------------------------------------------------------------------------
(***************************************************************************)
(* Value::as_string (value.rs:251-272).  Texts are compared as Rust        *)
(* compares Strings: byte by byte, a proper prefix first.                  *)
(***************************************************************************)
\* The characters used, in the order of their codes.
Ascii ==
    << " ", "+", ",", "-", ".",
       "0", "1", "2", "3", "4", "5", "6", "7", "8", "9", ":",
       "A", "B", "C", "D", "E", "F", "G", "H", "I", "J", "K", "L", "M",
       "N", "O", "P", "Q", "R", "S", "T", "U", "V", "W", "X", "Y", "Z",
       "[", "]", "_",
       "a", "b", "c", "d", "e", "f", "g", "h", "i", "j", "k", "l", "m",
       "n", "o", "p", "q", "r", "s", "t", "u", "v", "w", "x", "y", "z",
       "{", "}" >>

Code(c) == CHOOSE n \in DOMAIN Ascii : Ascii[n] = c

\* <String as Ord>::lt
StrLess(s1, s2) ==
    \E n \in 1..(Len(s1) + 1) :
        /\ n <= Len(s2)
        /\ \A j \in 1..(n - 1) : s1[j] = s2[j]
        /\ n = Len(s1) + 1 \/ Code(s1[n]) < Code(s2[n])

\* Vec<String>::sort
sort(vec) ==
    CHOOSE sorted \in Orderings(vec) :
        \A x, y \in DOMAIN sorted : x < y => ~StrLess(sorted[y], sorted[x])

\* [String]::join(sep)
RECURSIVE join(_, _)
join(vec, sep) ==
    IF vec = <<>> THEN <<>>
    ELSE IF Len(vec) = 1 THEN vec[1]
    ELSE vec[1] \o sep \o join(Tail(vec), sep)

\* The orders in which a map's iterator can visit its keys.
IterationOrders(m) ==
    { order \in [1..Cardinality(DOMAIN m) -> DOMAIN m] :
        \A x, y \in DOMAIN order : x # y => order[x] # order[y] }

\* Faulty variant of as_string: the entries of a table are not sorted.
RECURSIVE as_string_Unsorted(_)
as_string_Unsorted(value) ==
    CASE value.kind = "Nil" -> { <<>> }
      [] value.kind = "Boolean" -> { BoolToString(value.b) }
      [] value.kind = "Integer" -> { IntToString(value.i) }
      [] value.kind = "Float" -> { FloatToString(value.f) }
      [] value.kind = "String" -> { value.s }
      [] value.kind = "Table" ->
           LET t == value.t
               shown == [k \in DOMAIN t |-> as_string_Unsorted(t[k])]
           IN { <<"{", " ">>
                    \o join([n \in DOMAIN order |->
                                order[n] \o <<":", " ">> \o pick[order[n]]], <<",", " ">>)
                    \o <<" ", "}">> :
                  order \in IterationOrders(t),
                  pick \in { f \in [DOMAIN t -> UNION {shown[k] : k \in DOMAIN t}] :
                               \A k \in DOMAIN t : f[k] \in shown[k] } }
      [] value.kind = "Array" ->
           LET a == value.a
               shown == [n \in DOMAIN a |-> as_string_Unsorted(a[n])]
           IN { <<"[", " ">> \o join(pick, <<",", " ">>) \o <<" ", "]">> :
                  pick \in { f \in [DOMAIN a -> UNION {shown[n] : n \in DOMAIN a}] :
                               \A n \in DOMAIN a : f[n] \in shown[n] } }

\* Value::as_string (value.rs:251-272): the strings it can return, one for
\* each order in which the tables' iterators can visit their entries.  A
\* table's entries are formatted as "k: v", the formatted entries are sorted
\* and joined; an array's elements are shown in their order.
RECURSIVE as_string(_)
as_string(value) ==
    CASE value.kind = "Nil" -> { <<>> }
      [] value.kind = "Boolean" -> { BoolToString(value.b) }
      [] value.kind = "Integer" -> { IntToString(value.i) }
      [] value.kind = "Float" -> { FloatToString(value.f) }
      [] value.kind = "String" -> { value.s }
      [] value.kind = "Table" ->
           LET t == value.t
               shown == [k \in DOMAIN t |-> as_string(t[k])]
           IN { <<"{", " ">>
                    \o join(sort([n \in DOMAIN order |->
                                     order[n] \o <<":", " ">> \o pick[order[n]]]),
                            <<",", " ">>)
                    \o <<" ", "}">> :
                  order \in IterationOrders(t),
                  pick \in { f \in [DOMAIN t -> UNION {shown[k] : k \in DOMAIN t}] :
                               \A k \in DOMAIN t : f[k] \in shown[k] } }
      [] value.kind = "Array" ->
           LET a == value.a
               shown == [n \in DOMAIN a |-> as_string(a[n])]
           IN { <<"[", " ">> \o join(pick, <<",", " ">>) \o <<" ", "]">> :
                  pick \in { f \in [DOMAIN a -> UNION {shown[n] : n \in DOMAIN a}] :
                               \A n \in DOMAIN a : f[n] \in shown[n] } }

(***************************************************************************)
(* The typed reads (config.rs:221-243): self.get(key).and_then(Value::     *)
(* into_X).  get yields a Value; the coercion is the plain Value's.        *)
(***************************************************************************)
get_str(c, key) ==
    LET g == get(c, key) IN IF g.res = "Ok" THEN into_str(g.ret) ELSE g

get_int(c, key) ==
    LET g == get(c, key) IN IF g.res = "Ok" THEN into_int(g.ret) ELSE g

get_bool(c, key) ==
    LET g == get(c, key) IN IF g.res = "Ok" THEN into_bool(g.ret) ELSE g

get_array(c, key) ==
    LET g == get(c, key) IN IF g.res = "Ok" THEN into_array(g.ret) ELSE g

\* The results get_tree can give (see into_tree).
get_tree(c, key) ==
    LET g == get(c, key) IN IF g.res = "Ok" THEN into_tree(g.ret) ELSE {g}

-----------------------------------------------------------------------------
(***************************************************************************)
(* The store's operations.  call.ret is the whole result for a read and,   *)
(* for any other call, the source's error if it returned one, else Nil.    *)
(***************************************************************************)
Call(op, key, arg, res, ret) ==
    [op |-> op, key |-> key, arg |-> arg, res |-> res, ret |-> ret]

Mutators == {"merge", "set", "set_default", "refresh"}

\* Config::new / Config::default (config.rs:27-35, 40-46, 96-98).  Config
\* derives Default, so cache is Value::default(), whose kind is
\* ValueKind::default() = Nil (value.rs:24-28, 100).
Init ==
    /\ subconfig = None
    /\ kind = "Mutable"
    /\ defaults = <<>>
    /\ overrides = <<>>
    /\ sources = <<>>
    /\ cache = Nil
    /\ call = Call("new", <<>>, Nil, "Ok", Nil)
    /\ refreshes = 0
    /\ ops = 0

\* Faulty variant of merge: a source error also freezes the store.
Merge_FreezeOnError(source) ==
    /\ UNCHANGED subconfig
    /\ ops < MaxOps
    /\ ops' = ops + 1
    /\ refreshes' = 0
    /\ IF kind = "Frozen"
       THEN /\ call' = Call("merge", <<>>, source.id, "Frozen", Nil)
            /\ UNCHANGED <<kind, defaults, overrides, sources, cache>>
       ELSE LET pushed == Append(sources, source)
                r == refresh(kind, defaults, pushed, overrides, cache)
            IN /\ cache' = r.cache
               /\ call' = Call("merge", <<>>, source.id, r.res, r.error)
               /\ IF r.res = "Ok"
                  THEN sources' = pushed /\ UNCHANGED <<kind, defaults, overrides>>
                  ELSE /\ kind' = "Frozen"
                       /\ defaults' = <<>> /\ overrides' = <<>> /\ sources' = <<>>

\* Faulty variant of merge: a source whose collection fails is taken off
\* sources again.
Merge_PopOnError(source) ==
    /\ UNCHANGED subconfig
    /\ ops < MaxOps
    /\ ops' = ops + 1
    /\ refreshes' = 0
    /\ IF kind = "Frozen"
       THEN /\ call' = Call("merge", <<>>, source.id, "Frozen", Nil)
            /\ UNCHANGED <<kind, defaults, overrides, sources, cache>>
       ELSE LET pushed == Append(sources, source)
                r == refresh(kind, defaults, pushed, overrides, cache)
            IN /\ sources' = IF r.res = "Ok" THEN pushed ELSE sources
               /\ cache' = r.cache
               /\ call' = Call("merge", <<>>, source.id, r.res, r.error)
               /\ UNCHANGED <<kind, defaults, overrides>>

\* Config::merge (config.rs:101-116)
Merge(source) ==
    /\ UNCHANGED subconfig
    /\ ops < MaxOps
    /\ ops' = ops + 1
    /\ refreshes' = 0
    /\ IF kind = "Frozen"
       THEN /\ call' = Call("merge", <<>>, source.id, "Frozen", Nil)
            /\ UNCHANGED <<kind, defaults, overrides, sources, cache>>
       ELSE LET pushed == Append(sources, source)
                r == refresh(kind, defaults, pushed, overrides, cache)
            IN /\ sources' = pushed
               /\ cache' = r.cache
               /\ call' = Call("merge", <<>>, source.id, r.res, r.error)
               /\ UNCHANGED <<kind, defaults, overrides>>

\* Faulty variant of Refresh: the layer maps are rebuilt before they are
\* iterated, so each call may visit their entries in another order.
Refresh_Reordered ==
    /\ UNCHANGED subconfig
    /\ refreshes' = IF refreshes < 2 THEN refreshes + 1 ELSE 2
    /\ \E d \in Orderings(defaults), o \in Orderings(overrides) :
          LET r == refresh(kind, d, sources, o, cache)
          IN /\ cache' = r.cache
             /\ call' = Call("refresh", <<>>, Nil, r.res, r.error)
    /\ UNCHANGED <<kind, defaults, overrides, sources, ops>>

\* Config::refresh called by the user (config.rs:123-157)
Refresh ==
    /\ UNCHANGED subconfig
    /\ refreshes' = IF refreshes < 2 THEN refreshes + 1 ELSE 2
    /\ LET r == refresh(kind, defaults, sources, overrides, cache)
       IN /\ cache' = r.cache
          /\ call' = Call("refresh", <<>>, Nil, r.res, r.error)
    /\ UNCHANGED <<kind, defaults, overrides, sources, ops>>

\* Faulty variant of set_default: the new default is patched into the cache
\* instead of the cache being recomputed from the layers.
SetDefault_Patch(key, value) ==
    /\ UNCHANGED subconfig
    /\ ops < MaxOps
    /\ ops' = ops + 1
    /\ refreshes' = 0
    /\ IF kind = "Frozen"
       THEN /\ call' = Call("set_default", key, value, "Frozen", Nil)
            /\ UNCHANGED <<kind, defaults, overrides, sources, cache>>
       ELSE LET p == Parse(to_lowercase(key)) IN
            IF ~p.ok
            THEN /\ call' = Call("set_default", key, value, "ParseError", Nil)
                 /\ UNCHANGED <<kind, defaults, overrides, sources, cache>>
            ELSE \E inserted \in LayerInsert(defaults, p.expr, value) :
                   /\ defaults' = inserted
                   /\ cache' = PathSet(cache, p.expr, value)
                   /\ call' = Call("set_default", key, value, "Ok", Nil)
                   /\ UNCHANGED <<kind, overrides, sources>>

\* Faulty variant of set_default: a key that fails to parse still inserts the
\* value, under the key's leading identifier, before the error is returned.
SetDefault_InsertOnBadKey(key, value) ==
    /\ UNCHANGED subconfig
    /\ ops < MaxOps
    /\ ops' = ops + 1
    /\ refreshes' = 0
    /\ IF kind = "Frozen"
       THEN /\ call' = Call("set_default", key, value, "Frozen", Nil)
            /\ UNCHANGED <<kind, defaults, overrides, sources, cache>>
       ELSE LET text == to_lowercase(key)
                p == Parse(text)
                lead == <<Key(SubSeq(text, 1, IdentEnd(text, 1) - 1))>>
            IN \E inserted \in LayerInsert(defaults, IF p.ok THEN p.expr ELSE lead, value) :
                   LET r == refresh(kind, inserted, sources, overrides, cache)
                   IN /\ defaults' = inserted
                      /\ cache' = IF p.ok THEN r.cache ELSE cache
                      /\ call' = Call("set_default", key, value,
                                      IF p.ok THEN r.res ELSE "ParseError",
                                      IF p.ok THEN r.error ELSE Nil)
                      /\ UNCHANGED <<kind, overrides, sources>>

\* Config::set_default (config.rs:164-182)
SetDefault(key, value) ==
    /\ UNCHANGED subconfig
    /\ ops < MaxOps
    /\ ops' = ops + 1
    /\ refreshes' = 0
    /\ IF kind = "Frozen"
       THEN /\ call' = Call("set_default", key, value, "Frozen", Nil)
            /\ UNCHANGED <<kind, defaults, overrides, sources, cache>>
       ELSE LET p == Parse(to_lowercase(key)) IN
            IF ~p.ok
            THEN /\ call' = Call("set_default", key, value, "ParseError", Nil)
                 /\ UNCHANGED <<kind, defaults, overrides, sources, cache>>
            ELSE \E inserted \in LayerInsert(defaults, p.expr, value) :
                   LET r == refresh(kind, inserted, sources, overrides, cache)
                   IN /\ defaults' = inserted
                      /\ cache' = r.cache
                      /\ call' = Call("set_default", key, value, r.res, r.error)
                      /\ UNCHANGED <<kind, overrides, sources>>

\* Faulty variant of set: the key is parsed before the kind is looked at, so
\* a frozen store answers a malformed key with a parse error.
Set_ParseFirst(key, value) ==
    /\ UNCHANGED subconfig
    /\ ops < MaxOps
    /\ ops' = ops + 1
    /\ refreshes' = 0
    /\ LET p == Parse(to_lowercase(key)) IN
       IF ~p.ok
       THEN /\ call' = Call("set", key, value, "ParseError", Nil)
            /\ UNCHANGED <<kind, defaults, overrides, sources, cache>>
       ELSE IF kind = "Frozen"
       THEN /\ call' = Call("set", key, value, "Frozen", Nil)
            /\ UNCHANGED <<kind, defaults, overrides, sources, cache>>
       ELSE \E inserted \in LayerInsert(overrides, p.expr, value) :
              LET r == refresh(kind, defaults, sources, inserted, cache)
              IN /\ overrides' = inserted
                 /\ cache' = r.cache
                 /\ call' = Call("set", key, value, r.res, r.error)
                 /\ UNCHANGED <<kind, defaults, sources>>

\* Faulty variant of set: the entry is inserted but the cache is not refreshed.
Set_NoRefresh(key, value) ==
    /\ UNCHANGED subconfig
    /\ ops < MaxOps
    /\ ops' = ops + 1
    /\ refreshes' = 0
    /\ IF kind = "Frozen"
       THEN /\ call' = Call("set", key, value, "Frozen", Nil)
            /\ UNCHANGED <<kind, defaults, overrides, sources, cache>>
       ELSE LET p == Parse(to_lowercase(key)) IN
            IF ~p.ok
            THEN /\ call' = Call("set", key, value, "ParseError", Nil)
                 /\ UNCHANGED <<kind, defaults, overrides, sources, cache>>
            ELSE \E inserted \in LayerInsert(overrides, p.expr, value) :
                   /\ overrides' = inserted
                   /\ call' = Call("set", key, value, "Ok", Nil)
                   /\ UNCHANGED <<kind, defaults, sources, cache>>

\* Config::set (config.rs:184-202)
Set(key, value) ==
    /\ UNCHANGED subconfig
    /\ ops < MaxOps
    /\ ops' = ops + 1
    /\ refreshes' = 0
    /\ IF kind = "Frozen"
       THEN /\ call' = Call("set", key, value, "Frozen", Nil)
            /\ UNCHANGED <<kind, defaults, overrides, sources, cache>>
       ELSE LET p == Parse(to_lowercase(key)) IN
            IF ~p.ok
            THEN /\ call' = Call("set", key, value, "ParseError", Nil)
                 /\ UNCHANGED <<kind, defaults, overrides, sources, cache>>
            ELSE \E inserted \in LayerInsert(overrides, p.expr, value) :
                   LET r == refresh(kind, defaults, sources, inserted, cache)
                   IN /\ overrides' = inserted
                      /\ cache' = r.cache
                      /\ call' = Call("set", key, value, r.res, r.error)
                      /\ UNCHANGED <<kind, defaults, sources>>

\* Config::get (config.rs:204-219): a read; it takes &self.
Get(key) ==
    /\ UNCHANGED subconfig
    /\ LET g == get(cache, key) IN call' = Call("get", key, Nil, g.res, g)
    /\ refreshes' = 0
    /\ UNCHANGED <<kind, defaults, overrides, sources, cache, ops>>

\* Config::get_str (config.rs:221-223)
GetStr(key) ==
    /\ UNCHANGED subconfig
    /\ LET r == get_str(cache, key) IN call' = Call("get_str", key, Nil, r.res, r)
    /\ refreshes' = 0
    /\ UNCHANGED <<kind, defaults, overrides, sources, cache, ops>>

\* Config::get_int (config.rs:225-227)
GetInt(key) ==
    /\ UNCHANGED subconfig
    /\ LET r == get_int(cache, key) IN call' = Call("get_int", key, Nil, r.res, r)
    /\ refreshes' = 0
    /\ UNCHANGED <<kind, defaults, overrides, sources, cache, ops>>

\* Config::get_bool (config.rs:233-235)
GetBool(key) ==
    /\ UNCHANGED subconfig
    /\ LET r == get_bool(cache, key) IN call' = Call("get_bool", key, Nil, r.res, r)
    /\ refreshes' = 0
    /\ UNCHANGED <<kind, defaults, overrides, sources, cache, ops>>

\* Faulty variant of get_tree: the table is moved out of the cache instead of
\* being cloned, which leaves Nil at the root.
GetTree_Take(key) ==
    /\ \E r \in get_tree(cache, key) :
          /\ call' = Call("get_tree", key, Nil, r.res, r)
          /\ subconfig' = IF r.res = "Ok" THEN Some(r.ret) ELSE subconfig
          /\ cache' = IF r.res = "Ok" THEN Nil ELSE cache
    /\ refreshes' = 0
    /\ UNCHANGED <<kind, defaults, overrides, sources, ops>>

\* Config::get_tree (config.rs:237-239).  The store it returns is the
\* caller's from then on.
GetTree(key) ==
    /\ \E r \in get_tree(cache, key) :
          /\ call' = Call("get_tree", key, Nil, r.res, r)
          /\ subconfig' = IF r.res = "Ok" THEN Some(r.ret) ELSE subconfig
    /\ refreshes' = 0
    /\ UNCHANGED <<kind, defaults, overrides, sources, cache, ops>>

\* Config::get_array (config.rs:241-243)
GetArray(key) ==
    /\ UNCHANGED subconfig
    /\ LET r == get_array(cache, key) IN call' = Call("get_array", key, Nil, r.res, r)
    /\ refreshes' = 0
    /\ UNCHANGED <<kind, defaults, overrides, sources, cache, ops>>

\* The explicit terminal conversion (spec 4.3): the kind becomes
\* ConfigKind::Frozen, which holds no layers; the cache stays.
Freeze ==
    /\ UNCHANGED subconfig
    /\ ops < MaxOps
    /\ kind = "Mutable"
    /\ ops' = ops + 1
    /\ refreshes' = 0
    /\ kind' = "Frozen"
    /\ defaults' = <<>>
    /\ overrides' = <<>>
    /\ sources' = <<>>
    /\ call' = Call("freeze", <<>>, Nil, "Ok", Nil)
    /\ UNCHANGED cache

(***************************************************************************)
(* ConfigResult (config.rs:252-297): the result of merge, refresh,         *)
(* set_default and set, on which the next call of a chain is made.  call   *)
(* holds the result the chained call is made on: Ok(instance) when         *)
(* call.res = "Ok", else the error (call.res, call.ret).                   *)
(***************************************************************************)
Chained == {"ConfigResult::merge", "ConfigResult::set_default", "ConfigResult::set"}

\* A ConfigResult is at hand: the last call returned one.
HasResult == call.op \in Mutators \cup Chained

\* Faulty variant of ConfigResult::set: the store is written whatever the
\* result the call is made on.
ConfigResult_set_Always(key, value) ==
    /\ UNCHANGED subconfig
    /\ HasResult
    /\ ops < MaxOps
    /\ ops' = ops + 1
    /\ refreshes' = 0
    /\ IF kind = "Frozen"
       THEN /\ call' = Call("ConfigResult::set", key, value, "Frozen", Nil)
            /\ UNCHANGED <<kind, defaults, overrides, sources, cache>>
       ELSE LET p == Parse(to_lowercase(key)) IN
            IF ~p.ok
            THEN /\ call' = Call("ConfigResult::set", key, value, "ParseError", Nil)
                 /\ UNCHANGED <<kind, defaults, overrides, sources, cache>>
            ELSE \E inserted \in LayerInsert(overrides, p.expr, value) :
                   LET r == refresh(kind, defaults, sources, inserted, cache)
                   IN /\ overrides' = inserted
                      /\ cache' = r.cache
                      /\ call' = Call("ConfigResult::set", key, value, r.res, r.error)
                      /\ UNCHANGED <<kind, defaults, sources>>

\* ConfigResult::merge (config.rs:260-271): Ok(instance) => instance.merge(source),
\* error => ConfigResult(error).
ConfigResult_merge(source) ==
    /\ UNCHANGED subconfig
    /\ HasResult
    /\ ops < MaxOps
    /\ ops' = ops + 1
    /\ refreshes' = 0
    /\ IF call.res # "Ok"
       THEN /\ call' = Call("ConfigResult::merge", <<>>, source.id, call.res, call.ret)
            /\ UNCHANGED <<kind, defaults, overrides, sources, cache>>
       ELSE IF kind = "Frozen"
       THEN /\ call' = Call("ConfigResult::merge", <<>>, source.id, "Frozen", Nil)
            /\ UNCHANGED <<kind, defaults, overrides, sources, cache>>
       ELSE LET pushed == Append(sources, source)
                r == refresh(kind, defaults, pushed, overrides, cache)
            IN /\ sources' = pushed
               /\ cache' = r.cache
               /\ call' = Call("ConfigResult::merge", <<>>, source.id, r.res, r.error)
               /\ UNCHANGED <<kind, defaults, overrides>>

\* ConfigResult::set_default (config.rs:273-284)
ConfigResult_set_default(key, value) ==
    /\ UNCHANGED subconfig
    /\ HasResult
    /\ ops < MaxOps
    /\ ops' = ops + 1
    /\ refreshes' = 0
    /\ IF call.res # "Ok"
       THEN /\ call' = Call("ConfigResult::set_default", key, value, call.res, call.ret)
            /\ UNCHANGED <<kind, defaults, overrides, sources, cache>>
       ELSE IF kind = "Frozen"
       THEN /\ call' = Call("ConfigResult::set_default", key, value, "Frozen", Nil)
            /\ UNCHANGED <<kind, defaults, overrides, sources, cache>>
       ELSE LET p == Parse(to_lowercase(key)) IN
            IF ~p.ok
            THEN /\ call' = Call("ConfigResult::set_default", key, value, "ParseError", Nil)
                 /\ UNCHANGED <<kind, defaults, overrides, sources, cache>>
            ELSE \E inserted \in LayerInsert(defaults, p.expr, value) :
                   LET r == refresh(kind, inserted, sources, overrides, cache)
                   IN /\ defaults' = inserted
                      /\ cache' = r.cache
                      /\ call' = Call("ConfigResult::set_default", key, value, r.res, r.error)
                      /\ UNCHANGED <<kind, overrides, sources>>

\* ConfigResult::set (config.rs:286-297)
ConfigResult_set(key, value) ==
    /\ UNCHANGED subconfig
    /\ HasResult
    /\ ops < MaxOps
    /\ ops' = ops + 1
    /\ refreshes' = 0
    /\ IF call.res # "Ok"
       THEN /\ call' = Call("ConfigResult::set", key, value, call.res, call.ret)
            /\ UNCHANGED <<kind, defaults, overrides, sources, cache>>
       ELSE IF kind = "Frozen"
       THEN /\ call' = Call("ConfigResult::set", key, value, "Frozen", Nil)
            /\ UNCHANGED <<kind, defaults, overrides, sources, cache>>
       ELSE LET p == Parse(to_lowercase(key)) IN
            IF ~p.ok
            THEN /\ call' = Call("ConfigResult::set", key, value, "ParseError", Nil)
                 /\ UNCHANGED <<kind, defaults, overrides, sources, cache>>
            ELSE \E inserted \in LayerInsert(overrides, p.expr, value) :
                   LET r == refresh(kind, defaults, sources, inserted, cache)
                   IN /\ overrides' = inserted
                      /\ cache' = r.cache
                      /\ call' = Call("ConfigResult::set", key, value, r.res, r.error)
                      /\ UNCHANGED <<kind, defaults, sources>>

(***************************************************************************)
(* Calls on the store that get_tree returned.  It is a Config of its own   *)
(* (config.rs:82-92 builds it from a clone of the cached table), so the    *)
(* methods are those of impl Config, run on its fields.                    *)
(***************************************************************************)
\* Faulty variant of Sub_Set: the returned store shares the parent's
\* overrides, so the entry is written to the parent as well.
Sub_Set_Shared(key, value) ==
    /\ subconfig.some
    /\ ops < MaxOps
    /\ ops' = ops + 1
    /\ refreshes' = 0
    /\ LET c == subconfig.v
           p == Parse(to_lowercase(key))
       IN IF c.kind = "Frozen"
          THEN /\ call' = Call("sub.set", key, value, "Frozen", Nil)
               /\ UNCHANGED <<subconfig, overrides, cache>>
          ELSE IF ~p.ok
          THEN /\ call' = Call("sub.set", key, value, "ParseError", Nil)
               /\ UNCHANGED <<subconfig, overrides, cache>>
          ELSE \E inserted \in LayerInsert(c.overrides, p.expr, value),
                  shared \in LayerInsert(overrides, p.expr, value) :
                 LET r == refresh(c.kind, c.defaults, c.sources, inserted, c.cache)
                     r2 == refresh(kind, defaults, sources, shared, cache)
                 IN /\ subconfig' = Some([c EXCEPT !.overrides = inserted,
                                                   !.cache = r.cache])
                    /\ overrides' = shared
                    /\ cache' = r2.cache
                    /\ call' = Call("sub.set", key, value, r.res, r.error)
    /\ UNCHANGED <<kind, defaults, sources>>

\* Config::merge (config.rs:101-116) on the returned store
Sub_Merge(source) ==
    /\ subconfig.some
    /\ ops < MaxOps
    /\ ops' = ops + 1
    /\ refreshes' = 0
    /\ LET c == subconfig.v IN
       IF c.kind = "Frozen"
       THEN /\ call' = Call("sub.merge", <<>>, source.id, "Frozen", Nil)
            /\ UNCHANGED subconfig
       ELSE LET pushed == Append(c.sources, source)
                r == refresh(c.kind, c.defaults, pushed, c.overrides, c.cache)
            IN /\ subconfig' = Some([c EXCEPT !.sources = pushed, !.cache = r.cache])
               /\ call' = Call("sub.merge", <<>>, source.id, r.res, r.error)
    /\ UNCHANGED <<kind, defaults, overrides, sources, cache>>

\* Config::refresh (config.rs:123-157) on the returned store
Sub_Refresh ==
    /\ subconfig.some
    /\ refreshes' = IF refreshes < 2 THEN refreshes + 1 ELSE 2
    /\ LET c == subconfig.v
           r == refresh(c.kind, c.defaults, c.sources, c.overrides, c.cache)
       IN /\ subconfig' = Some([c EXCEPT !.cache = r.cache])
          /\ call' = Call("sub.refresh", <<>>, Nil, r.res, r.error)
    /\ UNCHANGED <<kind, defaults, overrides, sources, cache, ops>>

\* Config::set_default (config.rs:164-182) on the returned store
Sub_SetDefault(key, value) ==
    /\ subconfig.some
    /\ ops < MaxOps
    /\ ops' = ops + 1
    /\ refreshes' = 0
    /\ LET c == subconfig.v
           p == Parse(to_lowercase(key))
       IN IF c.kind = "Frozen"
          THEN /\ call' = Call("sub.set_default", key, value, "Frozen", Nil)
               /\ UNCHANGED subconfig
          ELSE IF ~p.ok
          THEN /\ call' = Call("sub.set_default", key, value, "ParseError", Nil)
               /\ UNCHANGED subconfig
          ELSE \E inserted \in LayerInsert(c.defaults, p.expr, value) :
                 LET r == refresh(c.kind, inserted, c.sources, c.overrides, c.cache)
                 IN /\ subconfig' = Some([c EXCEPT !.defaults = inserted,
                                                   !.cache = r.cache])
                    /\ call' = Call("sub.set_default", key, value, r.res, r.error)
    /\ UNCHANGED <<kind, defaults, overrides, sources, cache>>

\* Config::set (config.rs:184-202) on the returned store
Sub_Set(key, value) ==
    /\ subconfig.some
    /\ ops < MaxOps
    /\ ops' = ops + 1
    /\ refreshes' = 0
    /\ LET c == subconfig.v
           p == Parse(to_lowercase(key))
       IN IF c.kind = "Frozen"
          THEN /\ call' = Call("sub.set", key, value, "Frozen", Nil)
               /\ UNCHANGED subconfig
          ELSE IF ~p.ok
          THEN /\ call' = Call("sub.set", key, value, "ParseError", Nil)
               /\ UNCHANGED subconfig
          ELSE \E inserted \in LayerInsert(c.overrides, p.expr, value) :
                 LET r == refresh(c.kind, c.defaults, c.sources, inserted, c.cache)
                 IN /\ subconfig' = Some([c EXCEPT !.overrides = inserted,
                                                   !.cache = r.cache])
                    /\ call' = Call("sub.set", key, value, r.res, r.error)
    /\ UNCHANGED <<kind, defaults, overrides, sources, cache>>

Next ==
    \/ \E source \in SourcePool : Merge(source)
    \/ Refresh
    \/ \E key \in KeyTexts, value \in DefaultValues : SetDefault(key, value)
    \/ \E key \in KeyTexts, value \in SetValues : Set(key, value)
    \/ \E key \in GetKeys : Get(key)
    \/ Freeze

Spec == Init /\ [][Next]_vars

-----------------------------------------------------------------------------
(***************************************************************************)
(* A store built from a nested mapping (Config::from, reached through      *)
(* Value::into_tree and Config::get_tree), then read and refreshed.        *)
(***************************************************************************)
T(k, v) == k :> v
Ka == <<"a">>
Kb == <<"b">>

\* Mappings handed to Config::from: scalars, tables and arrays at the top and
\* nested in each other.  TreePool[5] has the shape of tests/get_tree.rs (an
\* array of tables under a key).
TreePool ==
    { T(Ka, Integer(1)),
      T(Ka, String(<<"N", "O">>)) @@ T(Kb, Float(25)),
      T(Ka, Table(T(Kb, Integer(1)))),
      T(Ka, Array(<<Integer(1), Integer(2)>>)),
      T(Ka, Array(<<Table(T(Kb, Integer(1))), Table(T(Kb, Integer(2)))>>)),
      T(Ka, Table(T(Kb, Array(<<Integer(1), Integer(2)>>)))),
      T(Ka, Table(T(Kb, Table(T(Ka, Integer(1)))))),
      T(Ka, Table(T(Kb, Integer(1)))) @@ T(Kb, Array(<<Boolean(TRUE)>>)),
      T(Ka, Array(<<Array(<<Integer(1)>>), Integer(2)>>)),
      T(Ka, Table(T(Kb, Array(<<Integer(1)>>)))) @@ T(Kb, Integer(2)),
      T(Ka, Table(T(Ka, Integer(1)) @@ T(Kb, Integer(2)))),
      T(Ka, Table(EmptyMap)) @@ T(Kb, Integer(1)) }

\* Key texts read from such a store.
TreeKeys ==
    { <<"a">>, <<"b">>, <<"a", ".", "b">>, <<"a", "[", "1", "]">>,
      <<"a", "[", "1", "]", ".", "b">>, <<"a", ".", "b", "[", "0", "]">>,
      <<"b", "[", "0", "]">>, <<"A", ".", "B">> }

InitFrom ==
    \E map \in TreePool : \E c \in From(map) :
        /\ kind = c.kind
        /\ defaults = c.defaults
        /\ overrides = c.overrides
        /\ sources = c.sources
        /\ cache = c.cache
        /\ call = Call("from", <<>>, Table(map), "Ok", Nil)
        /\ subconfig = None
        /\ refreshes = 0
        /\ ops = 0

TreeNext ==
    \/ Refresh
    \/ \E key \in TreeKeys : Get(key)
    \/ \E key \in TreeKeys : GetStr(key)
    \/ \E key \in TreeKeys : GetInt(key)
    \/ \E key \in TreeKeys : GetBool(key)
    \/ \E key \in TreeKeys : GetTree(key)
    \/ \E key \in TreeKeys : GetArray(key)

TreeSpec == InitFrom /\ [][TreeNext]_vars

-----------------------------------------------------------------------------
(***************************************************************************)
(* Vocabulary of the properties.                                           *)
(***************************************************************************)
Parses(key) == Parse(to_lowercase(key)).ok
ExprOf(key) == Parse(to_lowercase(key)).expr

\* A mutating call has just returned success on a mutable store.
JustSucceeded == kind = "Mutable" /\ call.op \in Mutators /\ call.res = "Ok"

\* Length of the longest common prefix of two expressions.
CommonPrefix(e1, e2) ==
    LET m == IF Len(e1) < Len(e2) THEN Len(e1) ELSE Len(e2)
        agree == {n \in 0..m : SubSeq(e1, 1, n) = SubSeq(e2, 1, n)}
    IN CHOOSE n \in agree : \A n2 \in agree : n2 <= n

\* Two different expressions overlap when one is a prefix of the other or when
\* they part at a step where one wants a table and the other an array.
Overlaps(e1, e2) ==
    /\ e1 # e2
    /\ LET n == CommonPrefix(e1, e2)
       IN n = Len(e1) \/ n = Len(e2) \/ e1[n + 1].t # e2[n + 1].t

\* The layer holds an entry strictly below expr (expr is a proper prefix of it).
HasBelow(layer, expr) ==
    \E e \in LayerKeys(layer) :
        Len(e) > Len(expr) /\ SubSeq(e, 1, Len(expr)) = expr

OverlapsIn(layer, expr) == \E e \in LayerKeys(layer) : Overlaps(e, expr)

\* The sources (by position) that contribute a value at expr.
Contributors(expr) == {j \in DOMAIN sources : LayerHas(sources[j].data, expr)}

LastContributor(expr) ==
    CHOOSE j \in Contributors(expr) : \A j2 \in Contributors(expr) : j2 <= j

\* The value a source contributes at expr (its last pair for expr).
Contributed(source, expr) ==
    LET at == {j \in DOMAIN source.data : source.data[j].key = expr}
        last == CHOOSE j \in at : \A j2 \in at : j2 <= j
    IN source.data[last].val

SourcesTouch(expr) ==
    \E j \in DOMAIN sources :
        LayerHas(sources[j].data, expr) \/ OverlapsIn(sources[j].data, expr)

Returned(value) == [res |-> "Ok", ret |-> value, key |-> <<>>]

-----------------------------------------------------------------------------
(***************************************************************************)
(* C1 -- precedence.                                                       *)
(***************************************************************************)
\* C1 as stated: after successful calls, get(k) is the override at k if there
\* is one, else the value of the most recently merged source that contributes
\* k, else the default at k.  (Read in the claim's favour: a layer that holds
\* entries below k, as a.b is below a, counts as contributing a table at k,
\* about which nothing is required here.)
C1_PrecedenceAsStated ==
    JustSucceeded =>
        \A key \in KeyTexts : Parses(key) =>
            LET e == ExprOf(key) IN
            IF LayerHas(overrides, e)
            THEN get(cache, key) = Returned(LayerAt(overrides, e))
            ELSE IF HasBelow(overrides, e) THEN TRUE
            ELSE IF Contributors(e) # {}
            THEN (\A j \in DOMAIN sources :
                      j > LastContributor(e) => ~HasBelow(sources[j].data, e))
                    => get(cache, key) = Returned(Contributed(sources[LastContributor(e)], e))
            ELSE IF \E j \in DOMAIN sources : HasBelow(sources[j].data, e) THEN TRUE
            ELSE LayerHas(defaults, e) => get(cache, key) = Returned(LayerAt(defaults, e))

\* C1 amended: the same, for a key whose winning entry is not overlapped by
\* another entry of its own layer or of a higher one.  An overlapped entry
\* (overrides at a and at a.b) is decided by the order of application.
C1_Precedence ==
    JustSucceeded =>
        \A key \in KeyTexts : Parses(key) =>
            LET e == ExprOf(key) IN
            /\ (LayerHas(overrides, e) /\ ~OverlapsIn(overrides, e))
                  => get(cache, key) = Returned(LayerAt(overrides, e))
            /\ ( /\ ~LayerHas(overrides, e) /\ ~OverlapsIn(overrides, e)
                 /\ Contributors(e) # {}
                 /\ \A j \in DOMAIN sources :
                        j >= LastContributor(e) => ~OverlapsIn(sources[j].data, e) )
                  => get(cache, key) = Returned(Contributed(sources[LastContributor(e)], e))
            /\ ( /\ ~LayerHas(overrides, e) /\ ~OverlapsIn(overrides, e)
                 /\ ~SourcesTouch(e)
                 /\ LayerHas(defaults, e) /\ ~OverlapsIn(defaults, e) )
                  => get(cache, key) = Returned(LayerAt(defaults, e))

\* A set_default issued after two merges sits under the later source's value
\* while an override at another key is in place.
C1_Witness ==
    /\ JustSucceeded
    /\ call.op = "set_default"
    /\ Len(sources) = 2
    /\ LayerHas(defaults, E_ab)
    /\ get(cache, <<"a", ".", "b">>) = Returned(Contributed(sources[2], E_ab))
    /\ sources[1] # sources[2]

-----------------------------------------------------------------------------
(***************************************************************************)
(* C2 -- the cache and the layers.                                         *)
(***************************************************************************)
\* The cache has been computed: a new store's cache is Nil until the first
\* recomputation succeeds (see C13), and a recomputation yields a table.
Computed == cache # Nil

-----------------------------------------------------------------------------
(***************************************************************************)
(* C3 -- abort on source failure.                                          *)
(***************************************************************************)
\* C3: a merge or refresh that returns a source's error leaves cache, and so
\* the result of get on every key, as it was before the call.
C3_AbortKeepsCache ==
    [][ (call'.op \in {"merge", "refresh"} /\ call'.res = "SourceError")
          => /\ cache' = cache
             /\ \A key \in KeyTexts : get(cache', key) = get(cache, key) ]_vars

\* A merge failed on a store that has a default and an earlier, working source
\* (so the aborted recomputation had written both), and the default's key
\* still resolves.
C3_Witness ==
    /\ call.op = "merge" /\ call.res = "SourceError"
    /\ Len(sources) = 2 /\ ~sources[1].fails
    /\ \E j \in DOMAIN defaults :
          PathGet(cache, defaults[j].key) = There(defaults[j].val)

-----------------------------------------------------------------------------
(***************************************************************************)
(* C4 -- frozen invariance.                                                *)
(***************************************************************************)
\* C4: on a frozen store every set, merge, set_default and refresh returns
\* Frozen and leaves cache (and what every get returns) unchanged; freezing
\* itself leaves cache unchanged.
C4_FrozenInvariance ==
    [][ /\ (kind = "Frozen" /\ call'.op \in Mutators) => call'.res = "Frozen"
        /\ (kind = "Frozen" \/ kind' = "Frozen")
              => /\ cache' = cache
                 /\ \A key \in KeyTexts : get(cache', key) = get(cache, key) ]_vars

\* A set with a malformed key was refused as Frozen on a frozen store whose
\* cache holds values.
C4_Witness ==
    /\ kind = "Frozen"
    /\ call.op = "set" /\ call.res = "Frozen" /\ ~Parses(call.key)
    /\ cache \notin {Nil, Table(EmptyMap)}

-----------------------------------------------------------------------------
(***************************************************************************)
(* C5 -- Frozen is terminal and entered only by the explicit conversion.   *)
(***************************************************************************)
\* C5: no call takes a Frozen store back to Mutable, and only the explicit
\* conversion takes a Mutable store to Frozen.
C5_FrozenTerminal ==
    [][ /\ kind = "Frozen" => kind' = "Frozen"
        /\ (kind = "Mutable" /\ kind' = "Frozen") => call'.op = "freeze" ]_vars

\* A merge was made on a frozen store, which is still frozen.
C5_Witness == kind = "Frozen" /\ call.op = "merge"

-----------------------------------------------------------------------------
(***************************************************************************)
(* C6 -- parse errors have no partial effect.                              *)
(***************************************************************************)
\* C6: set or set_default on a mutable store with a key that does not match
\* the path grammar returns a parse error and changes none of defaults,
\* overrides, sources and cache.
C6_ParseErrorNoEffect ==
    [][ (call'.op \in {"set", "set_default"} /\ kind = "Mutable" /\ ~Parses(call'.key))
          => /\ call'.res = "ParseError"
             /\ UNCHANGED <<kind, defaults, overrides, sources, cache>> ]_vars

\* A set with a malformed key returned a parse error on a store with entries.
C6_Witness ==
    /\ kind = "Mutable"
    /\ call.op = "set" /\ call.res = "ParseError"
    /\ overrides # <<>> /\ defaults # <<>>

-----------------------------------------------------------------------------
(***************************************************************************)
(* C7 -- auto-vivification.                                                *)
(***************************************************************************)
K_a == <<"a">>
K_a0b == <<"a", "[", "0", "]", ".", "b">>
K_a2 == <<"a", "[", "2", "]">>
E_a0b == <<Key(<<"a">>), Index(0), Key(<<"b">>)>>
E_a2 == <<Key(<<"a">>), Index(2)>>

\* C7: a successful set(key, v) on a store whose cache holds nothing at the
\* key's first step makes get(key) return v; for key a[0].b it makes a an
\* array of length 1 whose element 0 is a table with the single key b.
C7_AutoVivification ==
    [][ ( /\ call'.op = "set" /\ call'.res = "Ok"
          /\ ~PathGet(cache, <<Head(ExprOf(call'.key))>>).found )
          => /\ get(cache', call'.key) = Returned(call'.arg)
             /\ call'.key = K_a0b =>
                   get(cache', K_a) =
                       Returned(Array(<<Table(<<"b">> :> call'.arg)>>)) ]_vars

\* set("a[0].b", v) succeeded on a store that holds other values, and a is
\* an array of length 1 holding a table.
C7_Witness ==
    /\ call.op = "set" /\ call.key = K_a0b /\ call.res = "Ok"
    /\ get(cache, K_a0b) = Returned(call.arg)
    /\ get(cache, K_a).ret.kind = "Array" /\ Len(get(cache, K_a).ret.a) = 1
    /\ get(cache, <<"b">>).res = "Ok"

-----------------------------------------------------------------------------
(***************************************************************************)
(* C8 -- sparse index.                                                     *)
(***************************************************************************)
Rooted(layer, name) == \E e \in LayerKeys(layer) : Head(e) = Key(name)

\* C8: when the overrides under a are exactly a[0].b = x and a[2] = y (set on
\* a store with nothing else under a), a is the array <<{b: x}, Nil, y>> and
\* both keys read back, whichever of the two entries is applied first.
C8_SparseIndex ==
    ( /\ JustSucceeded
      /\ {e \in LayerKeys(overrides) : Head(e) = Key(<<"a">>)} = {E_a0b, E_a2}
      /\ ~Rooted(defaults, <<"a">>)
      /\ \A j \in DOMAIN sources : ~Rooted(sources[j].data, <<"a">>) )
    => LET x == LayerAt(overrides, E_a0b)
           y == LayerAt(overrides, E_a2)
       IN /\ get(cache, K_a) = Returned(Array(<<Table(<<"b">> :> x), Nil, y>>))
          /\ get(cache, K_a0b) = Returned(x)
          /\ get(cache, K_a2) = Returned(y)

\* set("a[2]", y) has followed set("a[0].b", x) and the map visits a[2] first.
C8_Witness ==
    /\ JustSucceeded
    /\ call.op = "set" /\ call.key = K_a2
    /\ Len(overrides) = 2
    /\ overrides[1].key = E_a2 /\ overrides[2].key = E_a0b
    /\ overrides[1].val # overrides[2].val
    /\ get(cache, K_a).ret = Array(<<Table(<<"b">> :> overrides[2].val), Nil, overrides[1].val>>)

-----------------------------------------------------------------------------
(***************************************************************************)
(* C9 -- case-insensitive keys.                                            *)
(***************************************************************************)
SameLowered(k1, k2) == to_lowercase(k1) = to_lowercase(k2)

\* C9 as stated: after a successful set(k1, v) or set_default(k1, v), get(k2)
\* returns v for every k2 equal to k1 after lower-casing.
C9_CaseInsensitiveAsStated ==
    (JustSucceeded /\ call.op \in {"set", "set_default"}) =>
        \A k2 \in KeyTexts :
            SameLowered(call.key, k2) => get(cache, k2) = Returned(call.arg)

\* C9 amended: the same, when the written entry is not shadowed: for set, no
\* other override overlaps the key; for set_default, no override or source
\* has an entry at or overlapping the key and no other default overlaps it.
C9_CaseInsensitive ==
    (JustSucceeded /\ call.op \in {"set", "set_default"}) =>
        LET e == ExprOf(call.key)
            clear ==
                IF call.op = "set" THEN ~OverlapsIn(overrides, e)
                ELSE /\ ~LayerHas(overrides, e) /\ ~OverlapsIn(overrides, e)
                     /\ ~SourcesTouch(e)
                     /\ ~OverlapsIn(defaults, e)
        IN clear =>
             \A k2 \in KeyTexts :
                 SameLowered(call.key, k2) => get(cache, k2) = Returned(call.arg)

\* set("A.B", v) succeeded over a merged source and get("a.b") returns v.
C9_Witness ==
    /\ JustSucceeded
    /\ call.op = "set" /\ call.key = <<"A", ".", "B">>
    /\ sources # <<>>
    /\ get(cache, <<"a", ".", "b">>) = Returned(call.arg)

-----------------------------------------------------------------------------
-----------------------------------------------------------------------------
(***************************************************************************)
(* C13 -- the new store.                                                   *)
(***************************************************************************)
\* C13: a newly created store is Mutable, its defaults, overrides and sources
\* are empty and its cache is an empty table (not Nil).
C13_NewStore ==
    call.op = "new" =>
        /\ kind = "Mutable"
        /\ defaults = <<>> /\ overrides = <<>> /\ sources = <<>>
        /\ cache = Table(EmptyMap)

-----------------------------------------------------------------------------
(***************************************************************************)
(* A new store on which the layers conflict: a default or a source puts a  *)
(* scalar at a while another layer writes below a, and more than one       *)
(* source fails.  It is read with get and the typed reads.                 *)
(***************************************************************************)
E_a == <<Key(<<"a">>)>>

\* Sources handed to merge: s1 contributes a.b, sa a scalar at a; bad and
\* bad2 fail, each with its own error.
LayeredSources ==
    {s \in SourcePool : s.id \in {"s1", "bad"}} \cup
    { [id |-> "sa", fails |-> FALSE,
       data |-> << [key |-> E_a, val |-> String(<<"s", "a">>)] >>],
      [id |-> "bad2", fails |-> TRUE, data |-> <<>>] }

\* Key texts handed to set_default, to set (the last one is malformed) and to
\* the reads.
LayeredDefaultKeys == { <<"a">>, <<"a", ".", "b">>, <<"A", ".", "B">> }
LayeredDefaultValues == {Integer(1), Integer(3)}
LayeredSetKeys == { <<"a", ".", "b">>, <<"a", "[", "0", "]">>, <<"a", ".", ".", "b">> }
LayeredReadKeys == { <<"a">>, <<"a", ".", "b">> }

LayeredNext ==
    \/ \E source \in LayeredSources : Merge(source)
    \/ Refresh
    \/ \E key \in LayeredDefaultKeys, value \in LayeredDefaultValues :
          SetDefault(key, value)
    \/ \E key \in LayeredSetKeys, value \in SetValues : Set(key, value)
    \/ \E key \in LayeredReadKeys : Get(key)
    \/ \E key \in LayeredReadKeys : GetStr(key)
    \/ \E key \in LayeredReadKeys : GetInt(key)
    \/ \E key \in LayeredReadKeys : GetBool(key)
    \/ \E key \in LayeredReadKeys : GetTree(key)
    \/ \E key \in LayeredReadKeys : GetArray(key)

LayeredSpec == Init /\ [][LayeredNext]_vars

-----------------------------------------------------------------------------
(***************************************************************************)
(* A store written through chains: a call on the store (merge, refresh,    *)
(* set_default, set) followed by calls on the ConfigResult it returned.    *)
(***************************************************************************)
ChainKeys == { <<"a", ".", "b">>, <<"a", ".", ".", "b">> }

ChainNext ==
    \/ \E source \in LayeredSources : Merge(source)
    \/ Refresh
    \/ \E key \in ChainKeys, value \in DefaultValues : SetDefault(key, value)
    \/ \E key \in ChainKeys : Set(key, Integer(2))
    \/ Freeze
    \/ \E source \in LayeredSources : ConfigResult_merge(source)
    \/ \E key \in ChainKeys, value \in DefaultValues : ConfigResult_set_default(key, value)
    \/ \E key \in ChainKeys : ConfigResult_set(key, Integer(2))

ChainSpec == Init /\ [][ChainNext]_vars

-----------------------------------------------------------------------------
(***************************************************************************)
(* A store and the store get_tree returned from it, both written to.       *)
(***************************************************************************)
FamilySources == {s \in SourcePool : s.id \in {"s1", "bad"}}
FamilyKeys == { <<"a", ".", "b">> }
SubKeys == { <<"b">>, <<"a", ".", ".", "b">> }

FamilyNext ==
    \/ \E source \in FamilySources : Merge(source)
    \/ Refresh
    \/ \E key \in FamilyKeys, value \in DefaultValues : SetDefault(key, value)
    \/ \E key \in FamilyKeys : Set(key, Integer(2))
    \/ GetTree(<<"a">>)
    \/ \E source \in FamilySources : Sub_Merge(source)
    \/ Sub_Refresh
    \/ \E key \in SubKeys, value \in DefaultValues : Sub_SetDefault(key, value)
    \/ \E key \in SubKeys : Sub_Set(key, Boolean(TRUE))

FamilySpec == Init /\ [][FamilyNext]_vars

-----------------------------------------------------------------------------
(***************************************************************************)
(* A value (held in the cache field of a store, which is public) and the   *)
(* conversions applied to it.                                              *)
(***************************************************************************)
W_yes == <<"y", "e", "s">>
W_NO == <<"N", "O">>
W_maybe == <<"m", "a", "y", "b", "e">>
W_key == <<"k", "e", "y">>
W_key1 == <<"k", "e", "y", "1">>
W_key2 == <<"k", "e", "y", "2">>

\* The values converted: each variant, the boolean words in several cases,
\* number texts and other texts, floats on both sides of a half, and tables
\* and arrays, among them a table whose keys are a prefix of one another and
\* the table of value.rs's test_complex_table_as_string in small.
ValuePool ==
    { Nil,
      Boolean(TRUE), Boolean(FALSE),
      Integer(0), Integer(1), Integer(7), Integer(0 - 3),
      Float(0), Float(24), Float(25), Float(26), Float(0 - 25),
      String(<<"1">>), String(<<"0">>),
      String(<<"t", "r", "u", "e">>), String(<<"T", "R", "U", "E">>),
      String(<<"O", "n">>), String(<<"o", "n">>),
      String(W_yes), String(<<"Y", "e", "s">>),
      String(<<"f", "a", "l", "s", "e">>), String(<<"F", "a", "l", "s", "e">>),
      String(<<"o", "f", "f">>), String(<<"O", "F", "F">>),
      String(<<"n", "o">>), String(W_NO),
      String(W_maybe), String(<<>>), String(<<"o">>),
      String(<<"1", "2">>), String(<<"-", "4">>), String(<<"+", "5">>),
      String(<<"1", "x">>), String(<<"2", ".", "6">>), String(<<" ", "1">>),
      String(<<"-">>), String(<<"0", "7">>),
      Array(<<>>),
      Array(<<Integer(2), Integer(1)>>),
      Array(<<String(W_yes), Nil, Table(T(W_key, Integer(1)))>>),
      Table(EmptyMap),
      Table(T(W_key, Integer(1))),
      Table(T(W_key1, String(W_yes)) @@ T(W_key2, String(W_NO))),
      Table(T(W_key, String(W_yes)) @@ T(W_key1, String(W_NO))),
      Table(T(W_key2, Boolean(TRUE)) @@
            T(W_key1, Table(T(Kb, Integer(2)) @@ T(Ka, Integer(1))))),
      Table(T(Ka, Array(<<Integer(1), Integer(2)>>)) @@ T(Kb, Float(25))) }

InitValue ==
    /\ subconfig = None
    /\ kind = "Mutable"
    /\ defaults = <<>>
    /\ overrides = <<>>
    /\ sources = <<>>
    /\ cache \in ValuePool
    /\ call = Call("value", <<>>, Nil, "Ok", Nil)
    /\ refreshes = 0
    /\ ops = 0

\* Each conversion is recorded in call; the value and the rest stay.

\* Value::into_bool (value.rs:139-164)
IntoBool ==
    /\ UNCHANGED subconfig
    /\ LET r == into_bool(cache) IN call' = Call("into_bool", <<>>, Nil, r.res, r)
    /\ UNCHANGED <<kind, defaults, overrides, sources, cache, refreshes, ops>>

\* Value::into_int (value.rs:166-191)
IntoInt ==
    /\ UNCHANGED subconfig
    /\ LET r == into_int(cache) IN call' = Call("into_int", <<>>, Nil, r.res, r)
    /\ UNCHANGED <<kind, defaults, overrides, sources, cache, refreshes, ops>>

\* Value::into_str (value.rs:220-231)
IntoStr ==
    /\ UNCHANGED subconfig
    /\ LET r == into_str(cache) IN call' = Call("into_str", <<>>, Nil, r.res, r)
    /\ UNCHANGED <<kind, defaults, overrides, sources, cache, refreshes, ops>>

\* Value::into_array (value.rs:233-240)
IntoArray ==
    /\ UNCHANGED subconfig
    /\ LET r == into_array(cache) IN call' = Call("into_array", <<>>, Nil, r.res, r)
    /\ UNCHANGED <<kind, defaults, overrides, sources, cache, refreshes, ops>>

\* Value::into_tree (value.rs:242-249)
IntoTree ==
    /\ UNCHANGED subconfig
    /\ \E r \in into_tree(cache) : call' = Call("into_tree", <<>>, Nil, r.res, r)
    /\ UNCHANGED <<kind, defaults, overrides, sources, cache, refreshes, ops>>

\* Value::as_string (value.rs:251-272)
AsString ==
    /\ UNCHANGED subconfig
    /\ \E r \in {Ok(string) : string \in as_string(cache)} : call' = Call("as_string", <<>>, Nil, r.res, r)
    /\ UNCHANGED <<kind, defaults, overrides, sources, cache, refreshes, ops>>

ValueNext ==
    \/ IntoBool
    \/ IntoInt
    \/ IntoStr
    \/ IntoArray
    \/ IntoTree
    \/ AsString

ValueSpec == InitValue /\ [][ValueNext]_vars

-----------------------------------------------------------------------------
(***************************************************************************)
(* C11 -- a store built from a mapping survives a refresh.                 *)
(***************************************************************************)
\* C11: a store built by Config::from has the mapping as its cache, and a
\* refresh of it reproduces that cache: every get that succeeded before the
\* refresh returns the same value after it, for any nesting of tables and
\* arrays.
C11_FromThenRefresh ==
    [][ (call.op = "from" /\ call'.op = "refresh")
          => /\ cache = call.arg
             /\ call'.res = "Ok"
             /\ \A key \in TreeKeys :
                    get(cache, key).res = "Ok" => get(cache', key) = get(cache, key) ]_vars

-----------------------------------------------------------------------------
(***************************************************************************)
(* C12 -- flattening.                                                      *)
(***************************************************************************)
\* The scalar leaves of a value with their full paths from the root: a table
\* under p contributes p.k, an array under p contributes p[i], recursively.
RECURSIVE LeafPaths(_, _)
LeafPaths(path, v) ==
    CASE v.kind = "Table" ->
           UNION { LeafPaths(Append(path, Key(k)), v.t[k]) : k \in DOMAIN v.t }
      [] v.kind = "Array" ->
           UNION { LeafPaths(Append(path, Index(n - 1)), v.a[n]) : n \in DOMAIN v.a }
      [] OTHER -> { [key |-> path, val |-> v] }

\* C12: the overrides of a store built from a mapping are exactly the scalar
\* leaves of the mapping, each under its full path from the root.
C12_FullyQualifiedLeaves ==
    call.op = "from" =>
        {overrides[j] : j \in DOMAIN overrides} = LeafPaths(<<>>, call.arg)

-----------------------------------------------------------------------------
(***************************************************************************)
(* C14 -- NotFound and InvalidType.                                        *)
(***************************************************************************)
Reads == {"get", "get_str", "get_int", "get_bool", "get_tree", "get_array"}

\* The value's shape cannot be coerced to what the read asks for, whatever
\* the value's content.
Incompatible(op, value) ==
    CASE op = "get" -> FALSE
      [] op = "get_array" -> value.kind # "Array"
      [] op = "get_tree" -> value.kind # "Table"
      [] OTHER -> value.kind \in {"Nil", "Array", "Table"}

\* C14: a read of a key whose path resolves to no value in the cache returns
\* NotFound carrying the key text as passed; a read of a key that resolves to
\* a value never returns NotFound and returns InvalidType when the value's
\* shape is incompatible with the requested type.
C14_NotFoundOrInvalidType ==
    (call.op \in Reads /\ Parses(call.key)) =>
        LET at == PathGet(cache, ExprOf(call.key)) IN
        IF ~at.found
        THEN call.res = "NotFound" /\ call.ret.key = call.key
        ELSE /\ call.res \in {"Ok", "InvalidType"}
             /\ Incompatible(call.op, at.v) => call.res = "InvalidType"

\* get_int("A.B") returned NotFound on a store whose cache holds a scalar at
\* a (a step applied to a value of the wrong shape).
C14_Witness ==
    /\ call.op = "get_int" /\ call.key = <<"A", ".", "B">>
    /\ call.res = "NotFound" /\ call.ret.key = <<"A", ".", "B">>
    /\ PathGet(cache, <<Key(<<"a">>)>>).found
    /\ PathGet(cache, <<Key(<<"a">>)>>).v.kind = "Integer"

-----------------------------------------------------------------------------
(***************************************************************************)
(* C15 -- keyed error context.                                             *)
(***************************************************************************)
Expected(op) ==
    CASE op = "get_str" -> "a string"
      [] op = "get_int" -> "an integer"
      [] op = "get_bool" -> "a boolean"
      [] op = "get_tree" -> "a map"
      [] op = "get_array" -> "an array"

\* C15: when a typed read on key k locates a value and the coercion fails,
\* the InvalidType error carries k, the value and the expected shape.
C15_KeyedError ==
    (call.op \in Reads /\ call.res = "InvalidType") =>
        /\ call.ret.key = Some(call.key)
        /\ call.ret.unexpected = PathGet(cache, ExprOf(call.key)).v
        /\ call.ret.expected = Expected(call.op)

-----------------------------------------------------------------------------
(***************************************************************************)
(* C16 -- into_bool.                                                       *)
(***************************************************************************)
\* The conversion just made returned x.
Gave(x) == call.res = "Ok" /\ call.ret = Ok(x)

\* The conversion just made returned InvalidType naming the expected shape.
Refused(expected) ==
    /\ call.res = "InvalidType"
    /\ call.ret.unexpected = cache
    /\ call.ret.expected = expected

TruthyTexts == { <<"1">>, <<"t", "r", "u", "e">>, <<"o", "n">>, <<"y", "e", "s">> }
FalsyTexts == { <<"0">>, <<"f", "a", "l", "s", "e">>, <<"o", "f", "f">>, <<"n", "o">> }

\* C16: into_bool gives b for Boolean b, (n # 0) for Integer n, true or false
\* for a String that lower-cased is one of 1, true, on, yes or one of 0,
\* false, off, no, and InvalidType for any other String and for Nil, Array
\* and Table; "NO" gives false and "maybe" InvalidType.
C16_IntoBool ==
    call.op = "into_bool" =>
        /\ cache.kind = "Boolean" => Gave(cache.b)
        /\ cache.kind = "Integer" => Gave(cache.i # 0)
        /\ cache.kind = "String" =>
              IF to_lowercase(cache.s) \in TruthyTexts THEN Gave(TRUE)
              ELSE IF to_lowercase(cache.s) \in FalsyTexts THEN Gave(FALSE)
              ELSE Refused("a boolean")
        /\ cache.kind \in {"Nil", "Array", "Table"} => Refused("a boolean")
        /\ cache = String(W_NO) => Gave(FALSE)
        /\ cache = String(W_maybe) => Refused("a boolean")

\* into_bool was applied to "NO" and gave false.
C16_Witness == call.op = "into_bool" /\ cache = String(W_NO) /\ Gave(FALSE)

-----------------------------------------------------------------------------
(***************************************************************************)
(* C17 -- into_int.                                                        *)
(***************************************************************************)
\* An integer literal: an optional sign and one or more digits.
IsIntegerLiteral(s) ==
    \E from \in 1..2 :
        /\ from = 2 => (Len(s) >= 1 /\ s[1] \in {"+", "-"})
        /\ from <= Len(s)
        /\ \A n \in from..Len(s) : s[n] \in Digits

\* The value of an integer literal.
LiteralValue(s) ==
    IF s[1] = "-" THEN 0 - DigitsVal(s, 2, Len(s))
    ELSE IF s[1] = "+" THEN DigitsVal(s, 2, Len(s))
    ELSE DigitsVal(s, 1, Len(s))

\* C17: on a value that is not a Float, into_int gives n for Integer n, 1 or 0
\* for a Boolean and for a String in the boolean-word set (in any case), its
\* value for any other String that is an integer literal, and InvalidType for
\* any other String and for Nil, Array and Table.  So wherever into_bool
\* succeeds on a String, into_int gives 1 for true and 0 for false.
C17_IntoInt ==
    call.op = "into_int" =>
        /\ cache.kind = "Integer" => Gave(cache.i)
        /\ cache.kind = "Boolean" => Gave(IF cache.b THEN 1 ELSE 0)
        /\ cache.kind = "String" =>
              /\ IF to_lowercase(cache.s) \in TruthyTexts THEN Gave(1)
                 ELSE IF to_lowercase(cache.s) \in FalsyTexts THEN Gave(0)
                 ELSE IF IsIntegerLiteral(cache.s) THEN Gave(LiteralValue(cache.s))
                 ELSE Refused("an integer")
              /\ into_bool(cache).res = "Ok" =>
                    Gave(IF into_bool(cache).ret THEN 1 ELSE 0)
        /\ cache.kind \in {"Nil", "Array", "Table"} => Refused("an integer")

\* into_int was applied to "Yes", on which into_bool gives true, and gave 1.
C17_Witness ==
    /\ call.op = "into_int" /\ cache = String(<<"Y", "e", "s">>)
    /\ into_bool(cache) = Ok(TRUE)
    /\ Gave(1)

-----------------------------------------------------------------------------
(***************************************************************************)
(* C18 -- shape-only coercions.                                            *)
(***************************************************************************)
\* C18: into_array succeeds exactly on an Array and returns its elements in
\* order; into_tree succeeds exactly on a Table; into_str succeeds exactly on
\* String, Boolean, Integer and Float; every other variant gives InvalidType
\* naming the expected shape.
C18_ShapeOnly ==
    /\ call.op = "into_array" =>
          IF cache.kind = "Array" THEN Gave(cache.a) ELSE Refused("an array")
    /\ call.op = "into_tree" =>
          IF cache.kind = "Table"
          THEN call.res = "Ok" /\ call.ret.ret.cache = cache
          ELSE Refused("a map")
    /\ call.op = "into_str" =>
          IF cache.kind \in {"String", "Boolean", "Integer", "Float"}
          THEN call.res = "Ok" /\ (cache.kind = "String" => Gave(cache.s))
          ELSE Refused("a string")

\* into_str was applied to Nil and refused it.
C18_Witness == call.op = "into_str" /\ cache = Nil /\ Refused("a string")

-----------------------------------------------------------------------------
(***************************************************************************)
(* C19 -- as_string lists a table by key.                                  *)
(***************************************************************************)
\* The keys of a map in lexicographic order.
SortedKeys(m) ==
    CHOOSE order \in IterationOrders(m) :
        \A x, y \in DOMAIN order : x < y => StrLess(order[x], order[y])

\* The ways to choose one of its strings for each member of a table or array.
Shown(members) ==
    { f \in [DOMAIN members -> UNION {as_string(members[x]) : x \in DOMAIN members}] :
        \A x \in DOMAIN members : f[x] \in as_string(members[x]) }

\* C19: as_string of a Table is "{ k: v, k: v }" with the entries in the
\* lexicographic order of their keys, for any set of keys; as_string of an
\* Array is "[ v, v ]" with the elements in their order.
C19_SortedByKey ==
    call.op = "as_string" =>
        /\ cache.kind = "Table" =>
              \E pick \in Shown(cache.t) :
                  call.ret.ret =
                      <<"{", " ">>
                        \o join([n \in DOMAIN SortedKeys(cache.t) |->
                                    SortedKeys(cache.t)[n] \o <<":", " ">>
                                        \o pick[SortedKeys(cache.t)[n]]],
                                <<",", " ">>)
                        \o <<" ", "}">>
        /\ cache.kind = "Array" =>
              \E pick \in Shown(cache.a) :
                  call.ret.ret = <<"[", " ">> \o join(pick, <<",", " ">>) \o <<" ", "]">>

-----------------------------------------------------------------------------
(***************************************************************************)
(* C20 -- as_string is deterministic.                                      *)
(***************************************************************************)
\* C20: the string as_string has returned for a value is the string it
\* returns for that value on every call and whatever the order in which the
\* tables hold their entries.
C20_Deterministic ==
    call.op = "as_string" => as_string(cache) = {call.ret.ret}

\* as_string was applied to a table of two entries, one of them a table of
\* two entries, and gave "{ key1: { a: 1, b: 2 }, key2: true }".
C20_Witness ==
    /\ call.op = "as_string"
    /\ cache = Table(T(W_key2, Boolean(TRUE)) @@
                     T(W_key1, Table(T(Kb, Integer(2)) @@ T(Ka, Integer(1)))))
    /\ Cardinality(IterationOrders(cache.t)) = 2
    /\ call.ret.ret = 
          << "{", " ", "k", "e", "y", "1", ":", " ", "{", " ", "a", ":",
             " ", "1", ",", " ", "b", ":", " ", "2", " ", "}", ",", " ",
             "k", "e", "y", "2", ":", " ", "t", "r", "u", "e", " ", "}" >>

-----------------------------------------------------------------------------
(***************************************************************************)
(* C21 -- source errors are surfaced.                                      *)
(***************************************************************************)
\* The call just made (call') recomputed the cache of a mutable store.
Recomputed ==
    /\ kind = "Mutable"
    /\ call'.op \in Mutators
    /\ call'.op \in {"set", "set_default"} => Parses(call'.key)

\* The position of the first source that fails.
FirstFailing(srcs) ==
    CHOOSE j \in DOMAIN srcs :
        srcs[j].fails /\ \A j2 \in DOMAIN srcs : j2 < j => ~srcs[j2].fails

\* C21: when a source fails during the recomputation a merge, set,
\* set_default or refresh makes, the call returns the error of that source
\* (the first one that fails), the tree being built holds what the defaults
\* and the sources before it gave and nothing of the later sources or the
\* overrides, and the cache stays.
C21_SourceErrorSurfaced ==
    [][ (Recomputed /\ \E j \in DOMAIN sources' : sources'[j].fails)
          => LET j == FirstFailing(sources')
                 withDefaults == ApplyLayer(defaults', Table(EmptyMap))
             IN /\ call'.res = "SourceError"
                /\ call'.ret = SourceError(sources'[j].id)
                /\ collect_to(sources', withDefaults).cache =
                       collect_to(SubSeq(sources', 1, j - 1), withDefaults).cache
                /\ cache' = cache ]_vars

\* A merge returned the error of bad2, which sits between a working source
\* and another failing one.
C21_Witness ==
    /\ call.op = "merge" /\ call.res = "SourceError"
    /\ call.ret = SourceError("bad2")
    /\ Len(sources) = 3
    /\ ~sources[1].fails /\ sources[2].id = "bad2" /\ sources[3].id = "bad"

-----------------------------------------------------------------------------
(***************************************************************************)
(* C22 -- last write wins per expression.                                  *)
(***************************************************************************)
\* The layer set / set_default writes to.
LayerOf(op) == IF op = "set" THEN overrides ELSE defaults

\* The entry at expr of the layer op writes to is what get sees, in a store
\* with defaults d, sources s and overrides o: for set, no other override
\* overlaps expr; for set_default, no override or source has an entry at or
\* overlapping expr and no other default overlaps it.
Unshadowed(op, expr, d, s, o) ==
    IF op = "set" THEN ~OverlapsIn(o, expr)
    ELSE /\ ~LayerHas(o, expr) /\ ~OverlapsIn(o, expr)
         /\ \A j \in DOMAIN s :
               ~LayerHas(s[j].data, expr) /\ ~OverlapsIn(s[j].data, expr)
         /\ ~OverlapsIn(d, expr)

\* A set or set_default whose key parses has just run on a mutable store.
Wrote == kind = "Mutable" /\ call'.op \in {"set", "set_default"} /\ Parses(call'.key)

\* What the call leaves in its layer: one entry per expression, the written
\* expression added if it was new, its entry holding the call's value, every
\* other entry as it was.
OneEntryPerExpression ==
    LET e == ExprOf(call'.key)
        before == LayerOf(call'.op)
        after == IF call'.op = "set" THEN overrides' ELSE defaults'
    IN /\ LayerKeys(after) = LayerKeys(before) \cup {e}
       /\ Len(after) = Cardinality(LayerKeys(after))
       /\ LayerAt(after, e) = call'.arg
       /\ \A e2 \in LayerKeys(before) \ {e} : LayerAt(after, e2) = LayerAt(before, e2)

\* C22 as stated: a set (set_default) call leaves exactly one entry for its
\* expression, holding its value, whatever was written to the expression
\* before; the layer has one entry per distinct expression written; and when
\* the call succeeds get on the key returns the call's value.
C22_LastWriteWinsAsStated ==
    [][ Wrote =>
          /\ OneEntryPerExpression
          /\ call'.res = "Ok" => get(cache', call'.key) = Returned(call'.arg)
      ]_vars

\* C22 amended: the same, with get returning the call's value when the
\* written entry is not shadowed by another entry.
C22_LastWriteWins ==
    [][ Wrote =>
          /\ OneEntryPerExpression
          /\ (call'.res = "Ok" /\ Unshadowed(call'.op, ExprOf(call'.key), defaults', sources', overrides'))
                => get(cache', call'.key) = Returned(call'.arg)
      ]_vars

\* set_default("A.B", 1) then set_default("a.b", 3), or the other way round
\* in the keys: one default, holding 3, and get("a.b") returns 3.
C22_Witness ==
    /\ JustSucceeded
    /\ call.op = "set_default" /\ call.arg = Integer(3)
    /\ ops = 2 /\ overrides = <<>> /\ sources = <<>>
    /\ defaults = << [key |-> E_ab, val |-> Integer(3)] >>
    /\ get(cache, <<"a", ".", "b">>) = Returned(Integer(3))

-----------------------------------------------------------------------------
(***************************************************************************)
(* C23 -- shape conflicts between layers are resolved by clobbering.       *)
(***************************************************************************)
\* The layers in the order refresh applies them: defaults, each source in
\* merge order, overrides.
Layers ==
    <<defaults>> \o [j \in DOMAIN sources |-> sources[j].data] \o <<overrides>>

RECURSIVE ApplyLayers(_, _)
ApplyLayers(ls, tree) ==
    IF ls = <<>> THEN tree
    ELSE ApplyLayers(Tail(ls), ApplyLayer(Head(ls), tree))

IsScalar(v) == v.kind \notin {"Nil", "Table", "Array"}

\* Layer r puts a scalar at `a` and nothing below it, no later layer has an
\* entry at `a`, and later layers write below `a`.
ScalarClobbered(r) ==
    /\ LayerHas(Layers[r], E_a) /\ IsScalar(LayerAt(Layers[r], E_a))
    /\ ~HasBelow(Layers[r], E_a)
    /\ \A r2 \in (r + 1)..Len(Layers) : ~LayerHas(Layers[r2], E_a)
    /\ \E r2 \in (r + 1)..Len(Layers) : HasBelow(Layers[r2], E_a)

\* The last layer after r with an entry at a.b, when no entry applied after
\* it replaces or removes a.b.
WritesAB(r, r2) ==
    /\ r2 > r /\ LayerHas(Layers[r2], E_ab) /\ ~OverlapsIn(Layers[r2], E_ab)
    /\ \A r3 \in (r2 + 1)..Len(Layers) :
          ~LayerHas(Layers[r3], E_ab) /\ ~OverlapsIn(Layers[r3], E_ab)

\* C23: when a layer puts a scalar at `a` and later layers write below `a`, a
\* recomputation succeeds (no source failing), `a` is a table or an array
\* holding exactly what the later layers wrote, and get("a.b") returns the
\* value of the later layer that wrote a.b.
C23_Clobbering ==
    (kind = "Mutable" /\ call.op \in Mutators /\ call.res \in {"Ok", "SourceError"}) =>
        \A r \in DOMAIN Layers :
            (ScalarClobbered(r) /\ \A j \in DOMAIN sources : ~sources[j].fails) =>
                /\ call.res = "Ok"
                /\ PathGet(cache, E_a).found
                /\ PathGet(cache, E_a).v.kind \in {"Table", "Array"}
                /\ PathGet(cache, E_a) =
                     PathGet(ApplyLayers(SubSeq(Layers, r + 1, Len(Layers)),
                                         Table(EmptyMap)), E_a)
                /\ \A r2 \in DOMAIN Layers :
                      WritesAB(r, r2) =>
                          get(cache, <<"a", ".", "b">>) = Returned(LayerAt(Layers[r2], E_ab))

\* A default and a source both put a scalar at `a`, then set("a.b", 2): `a`
\* is the table {b: 2}.
C23_Witness ==
    /\ JustSucceeded /\ call.op = "set"
    /\ LayerHas(defaults, E_a)
    /\ Len(sources) = 1 /\ sources[1].id = "sa"
    /\ overrides = << [key |-> E_ab, val |-> Integer(2)] >>
    /\ get(cache, <<"a">>) = Returned(Table(<<"b">> :> Integer(2)))
    /\ get(cache, <<"a", ".", "b">>) = Returned(Integer(2))

\* A source puts a scalar at `a`, then set("a[0]", 2): `a` is the array [2].
C23_WitnessArray ==
    /\ JustSucceeded /\ call.op = "set"
    /\ Len(sources) = 1 /\ sources[1].id = "sa"
    /\ overrides = << [key |-> <<Key(<<"a">>), Index(0)>>, val |-> Integer(2)] >>
    /\ get(cache, <<"a">>) = Returned(Array(<<Integer(2)>>))

-----------------------------------------------------------------------------
(***************************************************************************)
(* C24 -- application order within one layer.                              *)
(***************************************************************************)
\* No expression of the layer is a prefix of, or conflicts in shape with,
\* another expression of the layer.
NonOverlapping(layer) ==
    \A e1, e2 \in LayerKeys(layer) : ~Overlaps(e1, e2)

\* Entry j of the layer is applied after every entry it overlaps.
AppliedLast(layer, j) ==
    \A j2 \in DOMAIN layer : j2 > j => ~Overlaps(layer[j].key, layer[j2].key)

\* The entries that are applied after every entry they overlap are found in
\* the tree with their values.
LastAppliedWins(layer, tree) ==
    \A j \in DOMAIN layer :
        AppliedLast(layer, j) => PathGet(tree, layer[j].key) = There(layer[j].val)

\* C24: on a mutable store, refresh gives the same result for every order of
\* the defaults when no two defaults overlap, and for every order of the
\* overrides when no two overrides overlap; and in any order, an entry applied
\* after the entries it overlaps has its value at its location once its layer
\* has been applied (the defaults onto the empty table, the overrides onto
\* what the defaults and the sources gave).
C24_OrderImmaterial ==
    kind = "Mutable" =>
        LET r == refresh(kind, defaults, sources, overrides, cache)
        IN /\ NonOverlapping(defaults) =>
                \A d2 \in Orderings(defaults) :
                    refresh(kind, d2, sources, overrides, cache) = r
           /\ NonOverlapping(overrides) =>
                \A o2 \in Orderings(overrides) :
                    refresh(kind, defaults, sources, o2, cache) = r
           /\ \A d2 \in Orderings(defaults) :
                LastAppliedWins(d2, ApplyLayer(d2, Table(EmptyMap)))
           /\ \A o2 \in Orderings(overrides) :
                LET r2 == refresh(kind, defaults, sources, o2, cache)
                IN r2.res = "Ok" => LastAppliedWins(o2, r2.cache)

\* Two overrides that do not overlap, a[0].b and a[2] (the order decides which
\* of the two extends the array), over a default: the cache holds both.
C24_Witness ==
    /\ JustSucceeded
    /\ LayerKeys(overrides) = {E_a0b, E_a2}
    /\ NonOverlapping(overrides)
    /\ Len(defaults) = 1
    /\ PathGet(cache, E_a0b).found /\ PathGet(cache, E_a2).found

-----------------------------------------------------------------------------
(***************************************************************************)
(* C25 -- chained calls stop at the first error.                           *)
(***************************************************************************)
\* The step has the effect and the result of Config::merge with the source
\* named in call'.
AsMerge ==
    IF kind = "Frozen"
    THEN /\ call'.res = "Frozen"
         /\ UNCHANGED <<kind, defaults, overrides, sources, cache>>
    ELSE \E source \in LayeredSources :
           /\ source.id = call'.arg
           /\ sources' = Append(sources, source)
           /\ LET r == refresh(kind, defaults, sources', overrides, cache)
              IN cache' = r.cache /\ call'.res = r.res /\ call'.ret = r.error
           /\ UNCHANGED <<kind, defaults, overrides>>

\* The step has the effect and the result of Config::set_default with the key
\* and value in call'.
AsSetDefault ==
    IF kind = "Frozen" \/ ~Parses(call'.key)
    THEN /\ call'.res = IF kind = "Frozen" THEN "Frozen" ELSE "ParseError"
         /\ UNCHANGED <<kind, defaults, overrides, sources, cache>>
    ELSE /\ defaults' \in LayerInsert(defaults, ExprOf(call'.key), call'.arg)
         /\ LET r == refresh(kind, defaults', sources, overrides, cache)
            IN cache' = r.cache /\ call'.res = r.res /\ call'.ret = r.error
         /\ UNCHANGED <<kind, overrides, sources>>

\* The step has the effect and the result of Config::set with the key and
\* value in call'.
AsSet ==
    IF kind = "Frozen" \/ ~Parses(call'.key)
    THEN /\ call'.res = IF kind = "Frozen" THEN "Frozen" ELSE "ParseError"
         /\ UNCHANGED <<kind, defaults, overrides, sources, cache>>
    ELSE /\ overrides' \in LayerInsert(overrides, ExprOf(call'.key), call'.arg)
         /\ LET r == refresh(kind, defaults, sources, overrides', cache)
            IN cache' = r.cache /\ call'.res = r.res /\ call'.ret = r.error
         /\ UNCHANGED <<kind, defaults, sources>>

\* C25: a call made on a ConfigResult that holds an error changes no layer,
\* does not recompute the cache and returns that same error; a call made on
\* one that holds Ok has the effect and the result of the same call made on
\* the store.
C25_ChainStopsAtFirstError ==
    [][ call'.op \in Chained =>
          IF call.res # "Ok"
          THEN /\ UNCHANGED <<kind, defaults, overrides, sources, cache>>
               /\ call'.res = call.res
               /\ call'.ret = call.ret
          ELSE CASE call'.op = "ConfigResult::merge" -> AsMerge
                 [] call'.op = "ConfigResult::set_default" -> AsSetDefault
                 [] call'.op = "ConfigResult::set" -> AsSet
      ]_vars

\* merge(s1).merge(bad2).merge(bad): the second call fails, the third is
\* skipped (bad is not pushed) and its result is the error of bad2.
C25_Witness ==
    /\ call.op = "ConfigResult::merge" /\ call.arg = "bad"
    /\ call.res = "SourceError" /\ call.ret = SourceError("bad2")
    /\ Len(sources) = 2 /\ sources[1].id = "s1" /\ sources[2].id = "bad2"

-----------------------------------------------------------------------------
(***************************************************************************)
(* C26 -- frame of each operation on a mutable store.                      *)
(***************************************************************************)
\* C26: on a mutable store, set leaves kind, defaults and sources as they
\* were, set_default leaves kind, overrides and sources, merge leaves kind,
\* defaults and overrides, refresh leaves kind and the three layers, and get
\* and the typed reads leave kind, the three layers and the cache, whatever
\* the call returned.
C26_Frame ==
    [][ kind = "Mutable" =>
          CASE call'.op = "set" -> UNCHANGED <<kind, defaults, sources>>
            [] call'.op = "set_default" -> UNCHANGED <<kind, overrides, sources>>
            [] call'.op = "merge" -> UNCHANGED <<kind, defaults, overrides>>
            [] call'.op = "refresh" -> UNCHANGED <<kind, defaults, overrides, sources>>
            [] call'.op \in Reads ->
                 UNCHANGED <<kind, defaults, overrides, sources, cache>>
            [] OTHER -> TRUE
      ]_vars

\* get_tree("a") has returned a store while the parent holds a default, a
\* source and a computed cache.
C26_Witness ==
    /\ kind = "Mutable"
    /\ call.op = "get_tree" /\ call.res = "Ok"
    /\ defaults # <<>> /\ sources # <<>>
    /\ PathGet(cache, E_ab).found

-----------------------------------------------------------------------------
(***************************************************************************)
(* C27 -- a mutator that returns a source error has changed its layer.     *)
(***************************************************************************)
\* C27: on a mutable store, a merge that returns a source error leaves its
\* source appended to sources; a set or set_default with a parseable key that
\* returns a source error leaves its entry in its layer; and when sources
\* holds a failing source, merge, set, set_default and refresh return an
\* error and leave the cache as it was.
C27_ErrorAfterEffect ==
    [][ (kind = "Mutable" /\ call'.op \in Mutators) =>
          /\ (call'.op = "merge" /\ call'.res = "SourceError") =>
                /\ Len(sources') = Len(sources) + 1
                /\ SubSeq(sources', 1, Len(sources)) = sources
                /\ sources'[Len(sources')].id = call'.arg
          /\ (call'.op \in {"set", "set_default"} /\ Parses(call'.key)
                /\ call'.res = "SourceError") =>
                LET after == IF call'.op = "set" THEN overrides' ELSE defaults'
                IN /\ LayerHas(after, ExprOf(call'.key))
                   /\ LayerAt(after, ExprOf(call'.key)) = call'.arg
          /\ (\E j \in DOMAIN sources : sources[j].fails) =>
                /\ call'.res \in {"SourceError", "ParseError"}
                /\ call'.res = "ParseError" <=>
                      (call'.op \in {"set", "set_default"} /\ ~Parses(call'.key))
                /\ cache' = cache
      ]_vars

\* set_default("a", v) succeeded, merge(bad) failed, then set("a.b", 2) has
\* failed too: the override is in, bad is still in sources and the cache is
\* the one set_default computed.
C27_Witness ==
    /\ call.op = "set" /\ call.res = "SourceError"
    /\ Len(sources) = 1 /\ sources[1].id = "bad"
    /\ overrides = << [key |-> E_ab, val |-> Integer(2)] >>
    /\ Len(defaults) = 1
    /\ cache = Table(<<"a">> :> defaults[1].val)

-----------------------------------------------------------------------------
(***************************************************************************)
(* C28 -- the store returned by get_tree is independent of its parent.     *)
(***************************************************************************)
SubOps == {"sub.merge", "sub.refresh", "sub.set_default", "sub.set"}

\* C28: set, set_default, merge and refresh on the returned store leave the
\* parent's kind, layers and cache as they were; merge, refresh, set_default
\* and set on the parent leave the returned store as it was; and a store that
\* get_tree has just returned is Mutable, has no defaults and no sources, and
\* its cache is the table found at the key.
C28_Independent ==
    [][ /\ call'.op \in SubOps =>
             UNCHANGED <<kind, defaults, overrides, sources, cache>>
        /\ call'.op \in Mutators => UNCHANGED subconfig
        /\ (call'.op = "get_tree" /\ call'.res = "Ok") =>
             /\ subconfig'.some
             /\ subconfig'.v.kind = "Mutable"
             /\ subconfig'.v.defaults = <<>>
             /\ subconfig'.v.sources = <<>>
             /\ subconfig'.v.cache = get(cache, call'.key).ret
      ]_vars

\* The parent has a default and a source; the store get_tree("a") returned
\* has none, and a set on it has put b = true in it while the parent's a.b is
\* still the source's value.
C28_Witness ==
    /\ call.op = "sub.set" /\ call.res = "Ok"
    /\ defaults # <<>> /\ sources # <<>>
    /\ subconfig.some
    /\ subconfig.v.defaults = <<>> /\ subconfig.v.sources = <<>>
    /\ get(subconfig.v.cache, <<"b">>) = Returned(Boolean(TRUE))
    /\ get(cache, <<"a", ".", "b">>) = Returned(String(<<"s", "1">>))

====
